---------------------------- MODULE Spec2Model ----------------------------
(***************************************************************************)
(* Manager-side Cluster of discord-hybrid-sharding (src/src/Core/Cluster.js) *)
(* with the process Transport (Child) and the part of the child-side        *)
(* ClusterClient that produces lifecycle messages and heartbeats.           *)
(*                                                                         *)
(* One Cluster is modelled.  Time is counted in steps of                   *)
(* keepAlive.interval; heartbeat.last is kept as the time elapsed since     *)
(* the Date.now() it recorded, which is all the scan reads                  *)
(* (Date.now() - heartbeat.last).                                           *)
(***************************************************************************)
EXTENDS Integers, Sequences, FiniteSets, TLC

VARIABLES
    manager,     \* the ClusterManager fields the Cluster reads: keepAlive, respawn
    thread,      \* Cluster.thread: Null or the incarnation number of its Thread
    spawned,     \* number of Thread objects constructed so far
    live,        \* incarnations whose process is running with the listeners attached
    producing,   \* incarnations whose ClusterClient runs its _keepAlive producer
    ready,       \* Cluster.ready: NotSet | "true" | "false"
    heartbeat,   \* Cluster.heartbeat: [last, missed, interval]
    hbArmed,     \* number of armed setInterval timers of _checkIfClusterAlive
    scanDue,     \* the armed heartbeat timer has expired and its callback is queued
    restarts,    \* Cluster._restarts.current
    pending,     \* respawn() calls waiting out their delay, oldest first
    deaths,      \* number of 'death' events emitted
    killMark,    \* kind of the last kill() call made from outside, until the next spawn
    lastSpawn,   \* who made the last successful spawn, and after which kill
    window,      \* heartbeat triggers and watchdog respawns since the hourly reset,
                 \* and whether that reset found the budget used up
    resets,      \* number of hourly resets that found a counter to clear
    lastOp,      \* the handler that ran last and what it did
    waiters,     \* the promises of spawn(spawnTimeout) waiting for the child to
                 \* get ready, by the incarnation they wait for
    nonce,       \* PromiseHandler.nonce: the Map from nonce to { resolve, reject, options }
    promises,    \* the promise create() made for each nonce
    timeouts,    \* the setTimeout timer create() armed for each nonce
    threads,         \* the Clusters of the manager that have a thread, and so a child
    managerNonce,    \* ClusterManager._nonce: nonce -> { resolve, reject[, requestCluster] }
    clientNonce,     \* ClusterClient._nonce of each child: nonce -> { resolve, reject }
    managerPromises, \* the promise behind each entry of ClusterManager._nonce
    clientPromises,  \* the promise behind each entry of a ClusterClient._nonce
    managerTimers,   \* the timers armed for the manager's waiters
    clientTimers,    \* the timers armed for the children's waiters
    toManager,       \* messages sent by each child and not yet handled by its Cluster
    toClient,        \* messages sent by each Cluster and not yet handled by its child
    inbox,           \* requests emitted as 'message' and not yet replied to
    failedSends,     \* nonces of the requests whose send reported an error
    child,       \* the process of Cluster.thread that eval and fetchClientValue
                 \* talk to: 0 with no thread, else the number of the fork
    forked,      \* number of child processes forked so far
    evals,       \* Cluster._evals: script -> the call whose promise is cached
    fetches,     \* Cluster._fetches: prop -> the call whose promise is cached
    calls,       \* the calls of eval and fetchClientValue that made a promise,
                 \* each with its promise, its 'message' listener and its timer
    requests,    \* the _eval and _fetchProp messages each child has yet to answer
    client,      \* the ClusterClient of a child: keepAliveInterval, queue, ready
                 \* and heartbeat; the empty record before it is constructed
    intervals,   \* the setInterval timers the child made, by id: kind and armed
    late,        \* more than keepAliveInterval + 2000 ms have passed since
                 \* the child's heartbeat.last
    outbox,      \* what the child sent with process.send, not yet handled
    acks,        \* acks the Cluster sent that the child has not handled yet
    queue,       \* manager.queue: its mode and the number of advances
    fetching,    \* a _fetchProp request a child handled: its client object,
                 \* the path asked for and the replies the handler sent
    transport,   \* a Child transport: the options it was constructed with,
                 \* its processOptions and the process it forked
    broadcasts,  \* the calls of broadcastEval and fetchClientValues a child made,
                 \* each with its promise, its 'message' listener and its timer
    toCluster,   \* the _sEval and _sFetchProp requests the child sent, not yet
                 \* handled by its Cluster
    toChild      \* the replies the Cluster sent, not yet emitted in the child

\* the state the lifecycle and watchdog handlers work on
clusterVars == << manager, thread, spawned, live, producing, ready, heartbeat,
                  hbArmed, scanDue, restarts, pending, deaths, killMark, lastSpawn,
                  window, resets, lastOp >>

\* the state of a PromiseHandler
handlerVars == << nonce, promises, timeouts >>

\* the state of the request/reply traffic between the manager and the children
ipcVars == << threads, managerNonce, clientNonce, managerPromises, clientPromises,
              managerTimers, clientTimers, toManager, toClient, inbox, failedSends >>

\* the state of eval and fetchClientValue of a Cluster
evalVars == << child, forked, evals, fetches, calls, requests >>

\* the state of the parts modelled after the request/reply traffic
\* the state of a ClusterClient's heartbeat and of the spawn queue
clientVars == << client, intervals, late, outbox, acks, queue >>

\* the state of the handler of _fetchProp and of a Child transport
inputVars == << fetching, transport >>

\* the state of broadcastEval and fetchClientValues of a ClusterClient
broadcastVars == << broadcasts, toCluster, toChild >>

others == << evalVars, clientVars, inputVars, broadcastVars >>

\* the state outside the Cluster's lifecycle
messaging == << handlerVars, ipcVars, others >>

\* what the steps of eval and fetchClientValue leave alone
evalFrame == << manager, thread, spawned, live, producing, ready, heartbeat,
               hbArmed, scanDue, restarts, pending, deaths, killMark, lastSpawn,
               window, resets, waiters, handlerVars, ipcVars, clientVars,
               inputVars, broadcastVars >>

\* what the steps of a ClusterClient leave alone
clientFrame == << manager, thread, spawned, live, producing, ready, heartbeat,
                 hbArmed, scanDue, restarts, pending, deaths, killMark,
                 lastSpawn, window, resets, waiters, handlerVars, ipcVars,
                 evalVars, inputVars, broadcastVars >>

\* what the handler of _fetchProp and the steps of a Child leave alone
inputFrame == << manager, thread, spawned, live, producing, ready, heartbeat,
                hbArmed, scanDue, restarts, pending, deaths, killMark,
                lastSpawn, window, resets, waiters, handlerVars, ipcVars,
                evalVars, clientVars, broadcastVars >>

\* what the steps of broadcastEval and fetchClientValues leave alone
broadcastFrame == << manager, thread, spawned, live, producing, ready,
                    heartbeat, hbArmed, scanDue, restarts, pending, deaths,
                    killMark, lastSpawn, window, resets, waiters, handlerVars,
                    ipcVars, evalVars, clientVars, inputVars >>

vars == << clusterVars, waiters, messaging >>

---------------------------------------------------------------------------
(* Bounds of the model *)

MaxSpawns == 3
MaxMissed == 3
MaxPending == 1
MaxResets == 1
MaxRestartCount == 3

(* Program constants *)

GraceMs == 2000
RespawnDelayMs == 500

(* Inputs: the keepAlive configurations and respawn() delays tried *)

KeepAliveIntervals == {1000}
MissedLimits == {1, 2}
RestartLimits == {1, 2}
RespawnDelays == {0, RespawnDelayMs}

(* The ids of the manager's Clusters in the request/reply traffic *)

Clusters == {0, 1}

---------------------------------------------------------------------------
(* JavaScript values *)

\* null (no Thread); Thread incarnations are numbered from 1
Null == 0
\* an absent field of heartbeat reads as undefined; NaN is what arithmetic on it gives
Undefined == -1
NaN == -2
\* the handle setInterval returns
Timer == 1
\* Cluster.ready is never initialised by the constructor
NotSet == "undefined"

IsNum(x) == x >= 0

\* x++ on a field: undefined++ and NaN++ give NaN
Incr(x) == IF IsNum(x) THEN x + 1 ELSE NaN

\* Date.now() - Number(last): NaN when last is undefined
Diff(last) == IF IsNum(last) THEN last ELSE NaN

\* a > b and a < b are false when an operand is NaN or undefined
Gt(a, b) == IsNum(a) /\ IsNum(b) /\ a > b

EmptyObject == << >>

\* Object.keys(o).length
KeysLength(o) == Cardinality(DOMAIN o)

EmptyHeartbeat == [last |-> Undefined, missed |-> Undefined, interval |-> Undefined]

KeepAliveConfigs ==
    {EmptyObject} \cup
    [interval : KeepAliveIntervals,
     maxMissedHeartbeats : MissedLimits,
     maxClusterRestarts : RestartLimits]

\* keepAlive is configured: manager.keepAlive is an object with keys
KeepAliveOn(m) == KeysLength(m.keepAlive) # 0

---------------------------------------------------------------------------
(* The Cluster's fields as one value, so that a handler is a function of it *)

Self ==
    [thread |-> thread, spawned |-> spawned, live |-> live,
     producing |-> producing, ready |-> ready, heartbeat |-> heartbeat,
     hbArmed |-> hbArmed, restarts |-> restarts, pending |-> pending,
     deaths |-> deaths, killMark |-> killMark,
     lastSpawn |-> lastSpawn, window |-> window, scanDue |-> scanDue,
     out |-> "ok"]

Commit(s) ==
    /\ thread' = s.thread
    /\ spawned' = s.spawned
    /\ live' = s.live
    /\ producing' = s.producing
    /\ ready' = s.ready
    /\ heartbeat' = s.heartbeat
    /\ hbArmed' = s.hbArmed
    /\ restarts' = s.restarts
    /\ pending' = s.pending
    /\ deaths' = s.deaths
    /\ killMark' = s.killMark
    /\ lastSpawn' = s.lastSpawn
    /\ window' = s.window
    /\ scanDue' = s.scanDue

---------------------------------------------------------------------------
(* Cluster._cleanupHeartbeat *)

\* clearInterval(heartbeat.interval) disarms the timer whose handle the record
\* holds, a queued callback of it included
cleanupHeartbeat(s) ==
    LET held == s.heartbeat.interval = Timer /\ s.hbArmed > 0
        cleared == [s EXCEPT !.hbArmed = IF held THEN s.hbArmed - 1 ELSE s.hbArmed,
                             !.scanDue = IF held THEN FALSE ELSE s.scanDue]
    IN  IF ~KeepAliveOn(manager)
        THEN cleared
        ELSE [cleared EXCEPT !.heartbeat = EmptyHeartbeat]

(* Cluster._checkIfClusterAlive: arming the scan timer *)

checkIfClusterAlive(s) ==
    IF ~KeepAliveOn(manager)
    THEN s
    ELSE [s EXCEPT !.heartbeat.interval = Timer, !.hbArmed = s.hbArmed + 1]

(* Cluster.spawn, up to the point where it waits for the child to get ready *)

\* as spawn, without the check for an existing thread
spawnUnguarded(s, by) ==
    [s EXCEPT !.thread = s.spawned + 1,
              !.spawned = s.spawned + 1,
              !.live = s.live \cup {s.spawned + 1},
              !.lastSpawn = [by |-> by, after |-> s.killMark],
              !.killMark = "none"]

spawn(s, by) ==
    IF s.thread # Null
    THEN [s EXCEPT !.out = "CLUSTERING_PROCESS_EXISTS"]
    ELSE [s EXCEPT !.thread = s.spawned + 1,
                   !.spawned = s.spawned + 1,
                   !.live = s.live \cup {s.spawned + 1},
                   !.lastSpawn = [by |-> by, after |-> s.killMark],
                   !.killMark = "none"]

(* Cluster._handleExit *)

\* as handleExit, leaving ready as it was
handleExitKeepsReady(s, respawn) ==
    LET dead == [s EXCEPT !.deaths = s.deaths + 1,
                          !.thread = Null]
    IN  IF respawn THEN spawn(dead, "exit") ELSE dead

\* as handleExit, respawning only while the watchdog's restart budget lasts
handleExitWithinBudget(s, respawn) ==
    LET dead == [s EXCEPT !.deaths = s.deaths + 1,
                          !.ready = "false",
                          !.thread = Null]
        allowed == \/ ~KeepAliveOn(manager)
                   \/ s.restarts < manager.keepAlive.maxClusterRestarts
    IN  IF respawn /\ allowed THEN spawn(dead, "exit") ELSE dead

handleExit(s, respawn) ==
    LET dead == [s EXCEPT !.deaths = s.deaths + 1,
                          !.ready = "false",
                          !.thread = Null]
    IN  IF respawn THEN spawn(dead, "exit") ELSE dead

(* Child.kill: the listeners are removed and the process is killed *)

threadKill(s) ==
    [s EXCEPT !.live = s.live \ {s.thread},
              !.producing = s.producing \ {s.thread}]

(* Cluster.kill *)

kill(s, force) ==
    LET killed == threadKill(s)
        cleaned == IF force THEN cleanupHeartbeat(killed) ELSE killed
    IN  handleExit(cleaned, FALSE)

(* Cluster.respawn: the kill, and the spawn when no delay is awaited *)

respawn(s, delay, by) ==
    LET killed == IF s.thread # Null THEN kill(s, TRUE) ELSE s
    IN  IF delay > 0
        THEN [killed EXCEPT !.pending = Append(killed.pending, by)]
        ELSE spawn(killed, by)

(* Cluster._heartbeatMessage *)

\* as heartbeatMessage, recording the beat without clearing missed
heartbeatMessageKeepsMissed(s) ==
    IF ~KeepAliveOn(manager)
    THEN s
    ELSE [s EXCEPT !.heartbeat.last = 0]

heartbeatMessage(s) ==
    IF ~KeepAliveOn(manager)
    THEN s
    ELSE [s EXCEPT !.heartbeat.last = 0, !.heartbeat.missed = 0]

---------------------------------------------------------------------------
Init ==
    /\ manager \in [keepAlive : KeepAliveConfigs, respawn : BOOLEAN]
    /\ thread = Null
    /\ spawned = 0
    /\ live = {}
    /\ producing = {}
    /\ ready = NotSet
    /\ heartbeat = EmptyHeartbeat
    /\ hbArmed = 0
    /\ scanDue = FALSE
    /\ restarts = 0
    /\ pending = << >>
    /\ deaths = 0
    /\ killMark = "none"
    /\ lastSpawn = [by |-> "none", after |-> "none"]
    /\ window = [triggers |-> 0, respawns |-> 0, exhausted |-> FALSE]
    /\ resets = 0
    /\ lastOp = [op |-> "init", out |-> "ok"]
    /\ waiters = << >>
    /\ nonce = << >>
    /\ promises = << >>
    /\ timeouts = << >>
    /\ threads = {}
    /\ managerNonce = << >>
    /\ clientNonce = [c \in Clusters |-> << >>]
    /\ managerPromises = << >>
    /\ clientPromises = << >>
    /\ managerTimers = << >>
    /\ clientTimers = << >>
    /\ toManager = [c \in Clusters |-> << >>]
    /\ toClient = [c \in Clusters |-> << >>]
    /\ inbox = {}
    /\ failedSends = {}
    /\ child = 0
    /\ forked = 0
    /\ evals = << >>
    /\ fetches = << >>
    /\ calls = << >>
    /\ requests = << >>
    /\ client = EmptyObject
    /\ intervals = << >>
    /\ late = FALSE
    /\ outbox = << >>
    /\ acks = 0
    /\ queue = [mode |-> "auto", nexts |-> 0]
    /\ fetching = [client |-> EmptyObject, prop |-> << >>, handled |-> FALSE,
                   replies |-> << >>]
    /\ transport = [options |-> EmptyObject, processOptions |-> EmptyObject,
                    process |-> EmptyObject]
    /\ broadcasts = << >>
    /\ toCluster = << >>
    /\ toChild = << >>

(* cluster.spawn() called by the manager's queue or by the application *)

Spawn ==
    /\ thread = Null => spawned < MaxSpawns
    /\ LET s == spawn(Self, "user")
       IN  /\ Commit(s)
           /\ lastOp' = [op |-> "spawn", out |-> s.out]
    /\ UNCHANGED << manager, resets, waiters, messaging >>

(* cluster.kill(options); with no thread it throws before changing anything *)

Kill(force) ==
    /\ thread # Null
    /\ Commit(kill([Self EXCEPT !.killMark = IF force THEN "force" ELSE "soft"],
                    force))
    /\ lastOp' = [op |-> IF force THEN "killForce" ELSE "kill", out |-> "ok"]
    /\ UNCHANGED << manager, resets, waiters, messaging >>

(* cluster.respawn({delay}) called by the manager or the application *)

Respawn(delay) ==
    /\ IF delay > 0 THEN Len(pending) < MaxPending ELSE spawned < MaxSpawns
    /\ LET s == respawn(Self, delay, "user")
       IN  /\ Commit(s)
           /\ lastOp' = [op |-> "respawn", out |-> s.out]
    /\ UNCHANGED << manager, resets, waiters, messaging >>

(* A respawn() whose delay has elapsed goes on to spawn(timeout) *)

ResumeRespawn ==
    /\ pending # << >>
    /\ thread = Null => spawned < MaxSpawns
    /\ LET s == spawn([Self EXCEPT !.pending = Tail(pending)], Head(pending))
       IN  /\ Commit(s)
           /\ lastOp' = [op |-> "resume", out |-> s.out]
    /\ UNCHANGED << manager, resets, waiters, messaging >>

(* Cluster._handleMessage, the _ready branch; the child's triggerReady sent   *)
(* the message and started its producer when KEEP_ALIVE_INTERVAL is set.      *)
(* The onReady listener of a waiting spawn() calls _cleanupHeartbeat too,     *)
(* which the branch's own call repeats.                                       *)

handleReady(s) ==
    checkIfClusterAlive(cleanupHeartbeat(
        [s EXCEPT !.ready = "true"]))

HandleReady(p) ==
    /\ p \in live
    /\ LET started == [Self EXCEPT !.producing =
                          IF KeepAliveOn(manager) THEN producing \cup {p}
                          ELSE producing]
       IN  Commit(handleReady(started))
    /\ lastOp' = [op |-> "_ready", out |-> "ok"]
    /\ UNCHANGED << manager, resets, waiters, messaging >>

(* Cluster._handleMessage, the _disconnect and _reconnecting branches *)

handleDisconnect(s) == [s EXCEPT !.ready = "false"]

handleReconnecting(s) == [s EXCEPT !.ready = "false"]

HandleDisconnect(p) ==
    /\ p \in live
    /\ Commit(handleDisconnect(Self))
    /\ lastOp' = [op |-> "_disconnect", out |-> "ok"]
    /\ UNCHANGED << manager, resets, waiters, messaging >>

HandleReconnecting(p) ==
    /\ p \in live
    /\ Commit(handleReconnecting(Self))
    /\ lastOp' = [op |-> "_reconnecting", out |-> "ok"]
    /\ UNCHANGED << manager, resets, waiters, messaging >>

(* Cluster._handleMessage, the _keepAlive branch: a beat of the child's producer *)

HandleKeepAlive(p) ==
    /\ p \in live \cap producing
    /\ Commit(heartbeatMessage(Self))
    /\ lastOp' = [op |-> "_keepAlive", out |-> "ok"]
    /\ UNCHANGED << manager, resets, waiters, messaging >>

(* The child process exits on its own: the 'exit' listener runs _handleExit *)

ChildExit(p) ==
    /\ p \in live
    /\ thread # Null
    /\ manager.respawn => spawned < MaxSpawns
    /\ Commit(handleExit([Self EXCEPT !.live = live \ {p},
                                      !.producing = producing \ {p}],
                         manager.respawn))
    /\ lastOp' = [op |-> "exit", out |-> "ok"]
    /\ UNCHANGED << manager, resets, waiters, messaging >>

(* The setInterval callback of _checkIfClusterAlive *)

\* as scan, triggering as soon as missed reaches maxMissedHeartbeats
scanOneEarly(s) ==
    LET ka == manager.keepAlive
        diff == Diff(s.heartbeat.last)
        counted == [s EXCEPT !.heartbeat.missed = Incr(s.heartbeat.missed)]
        bumped == [counted EXCEPT !.restarts = counted.restarts + 1,
                                  !.window.triggers = counted.window.triggers + 1]
    IN  IF ~IsNum(diff) THEN [s EXCEPT !.out = "skipped"]
        ELSE IF ~(diff > ka.interval + GraceMs) THEN [s EXCEPT !.out = "alive"]
        ELSE IF ~(counted.heartbeat.missed >= ka.maxMissedHeartbeats)
             THEN [counted EXCEPT !.out = "counted"]
        ELSE IF bumped.restarts = ka.maxClusterRestarts
             THEN [bumped EXCEPT !.out = "suppressed"]
        ELSE IF bumped.restarts > ka.maxClusterRestarts
             THEN [bumped EXCEPT !.out = "suppressed"]
        ELSE LET called == respawn(cleanupHeartbeat(bumped), RespawnDelayMs,
                                   "heartbeat")
             IN  [called EXCEPT !.out = "respawn",
                                !.window.respawns = called.window.respawns + 1]

scan(s) ==
    LET ka == manager.keepAlive
        diff == Diff(s.heartbeat.last)
        counted == [s EXCEPT !.heartbeat.missed = Incr(s.heartbeat.missed)]
        bumped == [counted EXCEPT !.restarts = counted.restarts + 1,
                                  !.window.triggers = counted.window.triggers + 1]
    IN  IF ~IsNum(diff) THEN [s EXCEPT !.out = "skipped"]
        ELSE IF ~(diff > ka.interval + GraceMs) THEN [s EXCEPT !.out = "alive"]
        ELSE IF ~Gt(counted.heartbeat.missed, ka.maxMissedHeartbeats)
             THEN [counted EXCEPT !.out = "counted"]
        ELSE IF bumped.restarts = ka.maxClusterRestarts
             THEN [bumped EXCEPT !.out = "suppressed"]
        ELSE IF bumped.restarts > ka.maxClusterRestarts
             THEN [bumped EXCEPT !.out = "suppressed"]
        ELSE LET called == respawn(cleanupHeartbeat(bumped), RespawnDelayMs,
                                   "heartbeat")
             IN  [called EXCEPT !.out = "respawn",
                                !.window.respawns = called.window.respawns + 1]

Scan ==
    /\ scanDue
    /\ hbArmed > 0
    /\ Len(pending) < MaxPending
    /\ restarts < MaxRestartCount
    /\ IsNum(heartbeat.missed) => heartbeat.missed < MaxMissed
    /\ LET s == scan([Self EXCEPT !.scanDue = FALSE])
       IN  /\ Commit(s)
           /\ lastOp' = [op |-> "scan", out |-> s.out]
    /\ UNCHANGED << manager, resets, waiters, messaging >>

(* keepAlive.interval elapses: every respawn delay (shorter) has run out and  *)
(* the previous timer callback has run; an armed scan timer expires           *)

AgeCap == CHOOSE a \in {k * manager.keepAlive.interval : k \in 1..10} :
              /\ a > manager.keepAlive.interval + GraceMs
              /\ a - manager.keepAlive.interval <= manager.keepAlive.interval + GraceMs

Tick ==
    /\ KeepAliveOn(manager)
    /\ pending = << >>
    /\ ~(scanDue /\ hbArmed > 0)
    /\ heartbeat' = IF IsNum(heartbeat.last) /\ heartbeat.last < AgeCap
                    THEN [heartbeat EXCEPT !.last = heartbeat.last + manager.keepAlive.interval]
                    ELSE heartbeat
    /\ scanDue' = (hbArmed > 0)
    /\ lastOp' = [op |-> "tick", out |-> "ok"]
    /\ UNCHANGED << manager, thread, spawned, live, producing, ready, hbArmed,
                    restarts, pending, deaths, killMark, lastSpawn,
                    window, resets, waiters, messaging >>

(* The hourly setInterval of the constructor.  The hour is not measured: the *)
(* reset may come at any moment; one that finds the counter at 0 changes      *)
(* nothing and is left out.                                                   *)

HourlyReset ==
    /\ resets < MaxResets
    /\ restarts > 0
    /\ restarts' = 0
    /\ window' = [triggers |-> 0, respawns |-> 0,
                  exhausted |-> /\ KeepAliveOn(manager)
                                /\ restarts >= manager.keepAlive.maxClusterRestarts]
    /\ resets' = resets + 1
    /\ lastOp' = [op |-> "reset", out |-> "ok"]
    /\ UNCHANGED << manager, thread, spawned, live, producing, ready, heartbeat,
                    hbArmed, scanDue, pending, deaths, killMark,
                    lastSpawn, waiters, messaging >>

Next ==
    \/ Spawn
    \/ \E force \in BOOLEAN : Kill(force)
    \/ \E delay \in RespawnDelays : Respawn(delay)
    \/ ResumeRespawn
    \/ \E p \in live : HandleReady(p)
    \/ \E p \in live : HandleDisconnect(p)
    \/ \E p \in live : HandleReconnecting(p)
    \/ \E p \in live : HandleKeepAlive(p)
    \/ \E p \in live : ChildExit(p)
    \/ Scan
    \/ Tick
    \/ HourlyReset

Spec == Init /\ [][Next]_vars


---------------------------------------------------------------------------
(* Shorthands used by the properties below *)

\* the step just taken was a call of the named handler
Ran(op) == lastOp'.op = op

\* the step made the watchdog call respawn(): it queued a respawn of its own
WatchdogRespawns ==
    /\ Len(pending') = Len(pending) + 1
    /\ pending'[Len(pending')] = "heartbeat"

\* the step constructed a Thread
Spawns == spawned' = spawned + 1

\* the beat recorded in hb is overdue at a scan
Overdue(hb) == Gt(Diff(hb.last), manager.keepAlive.interval + GraceMs)

---------------------------------------------------------------------------
(* C1: a Cluster never owns more than one live Transport: every running      *)
(* process is the one Cluster.thread refers to, and a spawn() that finds      *)
(* thread non-null fails with CLUSTERING_PROCESS_EXISTS, constructs no Thread *)
(* and leaves thread as it was.                                               *)

C1_OneLiveTransport ==
    /\ [](Cardinality(live) <= 1 /\ live \subseteq {thread})
    /\ [][ /\ (Ran("spawn") \/ Ran("resume")) /\ thread # Null
              => /\ lastOp'.out = "CLUSTERING_PROCESS_EXISTS"
                 /\ thread' = thread
                 /\ spawned' = spawned
                 /\ live' = live
           /\ Spawns => thread' = spawned' /\ thread' \notin live
         ]_vars

\* a respawn() that waited out its delay finds a thread spawned meanwhile
C1_Witness ==
    /\ lastOp = [op |-> "resume", out |-> "CLUSTERING_PROCESS_EXISTS"]
    /\ thread # Null
    /\ live = {thread}

---------------------------------------------------------------------------
(* C2: thread = null implies that ready is not true, and ready is true only   *)
(* while the last lifecycle event of the current thread is a received _ready: *)
(* only the _ready branch makes it true, and _disconnect, _reconnecting and   *)
(* every change of thread (kill, exit, spawn) leave it not true.              *)

C2_ReadyOnlyAfterReady ==
    /\ [](thread = Null => ready # "true")
    /\ [][ /\ (ready' = "true" /\ ready # "true") => Ran("_ready")
           /\ (Ran("_disconnect") \/ Ran("_reconnecting") \/ thread' # thread)
              => ready' # "true"
         ]_vars

\* a replacement thread has reported _ready after its predecessor died ready
C2_Witness ==
    /\ ready = "true"
    /\ thread = 2
    /\ deaths = 1
    /\ lastOp.op = "_ready"

---------------------------------------------------------------------------
(* C3: whenever thread is null the heartbeat record is empty and no scan      *)
(* timer is armed.                                                            *)

C3_Original ==
    thread = Null => heartbeat = EmptyHeartbeat /\ hbArmed = 0

---------------------------------------------------------------------------
(* C4: inside one window the first maxClusterRestarts heartbeat triggers each *)
(* cause a respawn and the triggers after them cause none: the number of      *)
(* watchdog respawns is the number of triggers, capped at maxClusterRestarts. *)

Min(a, b) == IF a < b THEN a ELSE b

C4_Original ==
    KeepAliveOn(manager) =>
        window.respawns = Min(window.triggers, manager.keepAlive.maxClusterRestarts)

---------------------------------------------------------------------------
(* C5: once the counter has reached maxClusterRestarts the watchdog respawns  *)
(* no more until the hourly reset, and the first trigger after a reset that   *)
(* found the budget used up respawns again, whatever maxClusterRestarts >= 1. *)

\* the last step was a scan at which missed exceeded maxMissedHeartbeats
Triggered == lastOp.op = "scan" /\ lastOp.out \in {"respawn", "suppressed"}

C5_Original ==
    KeepAliveOn(manager) =>
        /\ (Triggered /\ restarts - 1 >= manager.keepAlive.maxClusterRestarts)
           => lastOp.out = "suppressed"
        /\ (Triggered /\ window.exhausted /\ window.triggers = 1)
           => lastOp.out = "respawn"

---------------------------------------------------------------------------
(* C6: the watchdog calls respawn() only in a scan that finds the beat        *)
(* overdue with maxMissedHeartbeats misses already counted, never earlier;    *)
(* the overdue scan that follows maxMissedHeartbeats counted misses is a      *)
(* trigger (it charges the restart budget); and a watchdog respawn made with  *)
(* an untouched budget leaves _restarts.current at 1.                         *)

C6_RespawnOnlyAfterMaxMissed ==
    [][ /\ WatchdogRespawns
           => /\ Ran("scan")
              /\ Overdue(heartbeat)
              /\ Gt(Incr(heartbeat.missed), manager.keepAlive.maxMissedHeartbeats)
              /\ heartbeat.missed >= manager.keepAlive.maxMissedHeartbeats
        /\ (Ran("scan") /\ Overdue(heartbeat)
              /\ heartbeat.missed = manager.keepAlive.maxMissedHeartbeats)
           => /\ restarts' = restarts + 1
              /\ lastOp'.out \in {"respawn", "suppressed"}
        /\ (Ran("scan") /\ Overdue(heartbeat)
              /\ IsNum(heartbeat.missed)
              /\ heartbeat.missed < manager.keepAlive.maxMissedHeartbeats)
           => /\ lastOp'.out = "counted"
              /\ restarts' = restarts
              /\ thread' = thread
        /\ (WatchdogRespawns /\ restarts = 0) => restarts' = 1
      ]_vars

\* the first watchdog respawn: the scan killed the thread and charged the budget
C6_Witness ==
    /\ lastOp = [op |-> "scan", out |-> "respawn"]
    /\ restarts = 1
    /\ deaths = 1
    /\ thread = Null
    /\ pending = << "heartbeat" >>

---------------------------------------------------------------------------
(* C7: a received _keepAlive, with keepAlive configured, sets missed to 0 and *)
(* records last; missed is never NaN nor negative and holds an integer         *)
(* whenever a beat is on record; and a step that is not a received beat       *)
(* leaves missed as it is or, in a scan only, one higher.                     *)

C7_MissedResetAndMonotone ==
    /\ [](/\ heartbeat.missed # NaN
          /\ IsNum(heartbeat.last) => IsNum(heartbeat.missed))
    /\ [][ /\ (Ran("_keepAlive") /\ KeepAliveOn(manager))
              => heartbeat'.missed = 0 /\ heartbeat'.last = 0
           /\ (~Ran("_keepAlive") /\ IsNum(heartbeat.missed) /\ IsNum(heartbeat'.missed))
              => /\ heartbeat'.missed \in {heartbeat.missed, heartbeat.missed + 1}
                 /\ heartbeat'.missed # heartbeat.missed => Ran("scan")
         ]_vars

\* a beat arrives after misses were counted
C7_Witness ==
    /\ lastOp.op = "_keepAlive"
    /\ heartbeat.missed = 0
    /\ heartbeat.last = 0
    /\ heartbeat.interval = Timer
    /\ restarts > 0

---------------------------------------------------------------------------
(* C8: after kill({force: true}) thread is null, ready is false, the          *)
(* heartbeat is empty with no timer armed, every thread constructed has       *)
(* emitted its one death event, and the next spawn of the Cluster is made by  *)
(* an explicit spawn() or respawn(), never by the exit handler or the         *)
(* heartbeat watchdog.                                                        *)

C8_Original ==
    /\ lastOp.op = "killForce"
       => /\ thread = Null
          /\ ready = "false"
          /\ heartbeat = EmptyHeartbeat
          /\ hbArmed = 0
          /\ deaths = spawned
    /\ lastSpawn.after = "force" => lastSpawn.by = "user"

---------------------------------------------------------------------------
(* C9: after kill() without force no new thread is spawned by the exit        *)
(* handler or by the heartbeat watchdog.                                      *)

C9_Original ==
    lastSpawn.after = "soft" => lastSpawn.by = "user"

---------------------------------------------------------------------------
(* C10: when the child exits on its own, the handler emits one death event    *)
(* and resets ready; with manager.respawn it constructs a replacement thread  *)
(* in the same step, whatever the restart budget, and without it the thread   *)
(* is left null and nothing is constructed.                                   *)

C10_ExitDrivenRespawn ==
    [][ Ran("exit")
        => /\ deaths' = deaths + 1
           /\ ready' = "false"
           /\ thread \notin live'
           /\ IF manager.respawn
              THEN /\ Spawns
                   /\ thread' = spawned'
                   /\ thread' # thread
                   /\ live' = {thread'}
              ELSE /\ thread' = Null
                   /\ spawned' = spawned
                   /\ live' = {}
      ]_vars

\* the child exits after the watchdog used up the restart budget, and is replaced
C10_Witness ==
    /\ lastOp.op = "exit"
    /\ manager.respawn
    /\ KeepAliveOn(manager)
    /\ restarts >= manager.keepAlive.maxClusterRestarts
    /\ thread # Null
    /\ lastSpawn.by = "exit"


---------------------------------------------------------------------------
(* Cluster.spawn(spawnTimeout): the wait for the child to get ready.  A      *)
(* waiter is the promise of one spawn() call with the three once-listeners   *)
(* and the timer it registered; settles counts the calls of its resolve and  *)
(* reject, of which the first decides the outcome.                           *)

\* the default of spawnTimeout
SpawnTimeoutMs == 30000
\* the spawnTimeout that asks for no wait
NoWait == -1

SpawnTimeouts == {SpawnTimeoutMs, NoWait}

NewWaiter ==
    [on |-> {"ready", "disconnect", "death"}, timer |-> TRUE,
     outcome |-> "pending", settles |-> 0]

\* as cleanup, leaving the 'death' listener registered
cleanupKeepsDeath(w) == [w EXCEPT !.timer = FALSE, !.on = w.on \cap {"death"}]

cleanup(w) == [w EXCEPT !.timer = FALSE, !.on = {}]

\* resolve() or reject() of the promise: only the first call decides
settle(w, outcome) ==
    [w EXCEPT !.outcome = IF w.outcome = "pending" THEN outcome ELSE w.outcome,
              !.settles = w.settles + 1]

onReady(w) == settle(cleanup(w), "resolved")
onDisconnect(w) == settle(cleanup(w), "CLUSTERING_READY_DISCONNECTED")
onDeath(w) == settle(cleanup(w), "CLUSTERING_READY_DIED")
onTimeout(w) == settle(cleanup(w), "CLUSTERING_READY_TIMEOUT")

\* this.emit(event) as far as the waiters listen to it
emit(ws, event) ==
    [i \in DOMAIN ws |->
        IF event \notin ws[i].on THEN ws[i]
        ELSE IF event = "ready" THEN onReady(ws[i])
        ELSE IF event = "disconnect" THEN onDisconnect(ws[i])
        ELSE onDeath(ws[i])]

\* the rest of spawn() after the Thread was made: s is what spawn() returned
awaitReady(ws, s, spawnTimeout) ==
    IF s.out # "ok" \/ spawnTimeout = NoWait
    THEN ws
    ELSE (s.thread :> NewWaiter) @@ ws

SpawnWait(spawnTimeout) ==
    /\ thread = Null => spawned < MaxSpawns
    /\ LET s == spawn(Self, "user")
       IN  /\ Commit(s)
           /\ lastOp' = [op |-> "spawn", out |-> s.out]
           /\ waiters' = awaitReady(waiters, s, spawnTimeout)
    /\ UNCHANGED << manager, resets, messaging >>

KillWait(force) ==
    /\ thread # Null
    /\ Commit(kill([Self EXCEPT !.killMark = IF force THEN "force" ELSE "soft"],
                    force))
    /\ lastOp' = [op |-> IF force THEN "killForce" ELSE "kill", out |-> "ok"]
    /\ waiters' = emit(waiters, "death")
    /\ UNCHANGED << manager, resets, messaging >>

\* respawn({delay: 0, timeout}): the kill and the spawn in one turn
RespawnWait(spawnTimeout) ==
    /\ spawned < MaxSpawns
    /\ LET s == respawn(Self, 0, "user")
           died == IF thread # Null THEN emit(waiters, "death") ELSE waiters
       IN  /\ Commit(s)
           /\ lastOp' = [op |-> "respawn", out |-> s.out]
           /\ waiters' = awaitReady(died, s, spawnTimeout)
    /\ UNCHANGED << manager, resets, messaging >>

ReadyWait(p) ==
    /\ p \in live
    /\ LET started == [Self EXCEPT !.producing =
                          IF KeepAliveOn(manager) THEN producing \cup {p}
                          ELSE producing]
       IN  Commit(handleReady(started))
    /\ lastOp' = [op |-> "_ready", out |-> "ok"]
    /\ waiters' = emit(waiters, "ready")
    /\ UNCHANGED << manager, resets, messaging >>

DisconnectWait(p) ==
    /\ p \in live
    /\ Commit(handleDisconnect(Self))
    /\ lastOp' = [op |-> "_disconnect", out |-> "ok"]
    /\ waiters' = emit(waiters, "disconnect")
    /\ UNCHANGED << manager, resets, messaging >>

ReconnectingWait(p) ==
    /\ p \in live
    /\ Commit(handleReconnecting(Self))
    /\ lastOp' = [op |-> "_reconnecting", out |-> "ok"]
    /\ waiters' = emit(waiters, "reconnecting")
    /\ UNCHANGED << manager, resets, messaging >>

\* the child exits: _handleExit emits 'death' and, with manager.respawn, calls
\* spawn() with the default spawnTimeout
ExitWait(p) ==
    /\ p \in live
    /\ thread # Null
    /\ manager.respawn => spawned < MaxSpawns
    /\ LET s == handleExit([Self EXCEPT !.live = live \ {p},
                                        !.producing = producing \ {p}],
                           manager.respawn)
       IN  /\ Commit(s)
           /\ waiters' = IF manager.respawn
                         THEN awaitReady(emit(waiters, "death"), s, SpawnTimeoutMs)
                         ELSE emit(waiters, "death")
    /\ lastOp' = [op |-> "exit", out |-> "ok"]
    /\ UNCHANGED << manager, resets, messaging >>

\* spawnTimeout elapses for the waiter of incarnation i: its timer fires
SpawnTimeout(i) ==
    /\ i \in DOMAIN waiters
    /\ waiters[i].timer
    /\ waiters' = [waiters EXCEPT ![i] = onTimeout(waiters[i])]
    /\ lastOp' = [op |-> "spawnTimeout", out |-> "ok"]
    /\ UNCHANGED << manager, thread, spawned, live, producing, ready, heartbeat,
                    hbArmed, scanDue, restarts, pending, deaths, killMark,
                    lastSpawn, window, resets, messaging >>

SpawnNext ==
    \/ \E t \in SpawnTimeouts : SpawnWait(t)
    \/ \E force \in BOOLEAN : KillWait(force)
    \/ \E t \in SpawnTimeouts : RespawnWait(t)
    \/ \E p \in live : ReadyWait(p)
    \/ \E p \in live : DisconnectWait(p)
    \/ \E p \in live : ReconnectingWait(p)
    \/ \E p \in live : ExitWait(p)
    \/ \E i \in DOMAIN waiters : SpawnTimeout(i)

SpawnSpec == Init /\ [][SpawnNext]_vars

---------------------------------------------------------------------------
(* C11: spawn(t) with a finite t settles exactly once, with the outcome of   *)
(* the first event after the spawn: 'ready' resolves it, 'disconnect'        *)
(* rejects it with CLUSTERING_READY_DISCONNECTED, 'death' with               *)
(* CLUSTERING_READY_DIED and the timer with CLUSTERING_READY_TIMEOUT; a      *)
(* pending waiter stays pending through every other step, and a settled one  *)
(* keeps its outcome, was settled by one call, and has no listener and no    *)
(* timer left.                                                               *)

\* the outcome the step just taken gives a waiter that was pending before it
FirstEvent(i) ==
    IF Ran("_ready") THEN "resolved"
    ELSE IF Ran("_disconnect") THEN "CLUSTERING_READY_DISCONNECTED"
    ELSE IF deaths' > deaths THEN "CLUSTERING_READY_DIED"
    ELSE IF Ran("spawnTimeout") /\ ~waiters'[i].timer THEN "CLUSTERING_READY_TIMEOUT"
    ELSE "pending"

C11_SpawnSettlesOnce ==
    [][/\ \A i \in DOMAIN waiters :
            /\ i \in DOMAIN waiters'
            /\ waiters[i].outcome = "pending" =>
                   waiters'[i].outcome = FirstEvent(i)
            /\ waiters[i].outcome # "pending" => waiters'[i] = waiters[i]
       /\ \A i \in DOMAIN waiters' :
            IF waiters'[i].outcome = "pending"
            THEN /\ waiters'[i].settles = 0
                 /\ waiters'[i].timer
                 /\ waiters'[i].on = {"ready", "disconnect", "death"}
            ELSE /\ waiters'[i].settles = 1
                 /\ ~waiters'[i].timer
                 /\ waiters'[i].on = {}]_vars

\* one wait was resolved by 'ready', one rejected by its timer and one by
\* 'disconnect' or 'death'
C11_Witness ==
    /\ \E i \in DOMAIN waiters : waiters[i].outcome = "resolved"
    /\ \E i \in DOMAIN waiters : waiters[i].outcome = "CLUSTERING_READY_TIMEOUT"
    /\ \E i \in DOMAIN waiters :
          waiters[i].outcome \in {"CLUSTERING_READY_DISCONNECTED",
                                  "CLUSTERING_READY_DIED"}

---------------------------------------------------------------------------
(* PromiseHandler (src/src/Core/Cluster.js, after the Cluster class).  A      *)
(* value is a scalar or a list of scalars; a promise records its state, the   *)
(* value or error it was settled with and the number of calls of its resolve  *)
(* and reject, of which the first decides.                                    *)

\* the nonces Util.generateNonce() hands out, in this order
Nonces == {1, 2}
\* the results and the error a reply may carry
Results == {"a", "b"}
ErrorsTried == {"error"}
\* options.limit and options.timeout as the callers of create() give them
Limits == {Undefined, 1, 2}
TimeoutsTried == {Undefined, 10000}

(* Bound of the model: the entries' results lists are not grown beyond it *)
MaxResults == 2

Scalar(x) == [list |-> FALSE, items |-> << x >>]
List(xs) == [list |-> TRUE, items |-> xs]

\* o[name] of a JavaScript object: undefined when o has no such property
Field(o, name) == IF name \in DOMAIN o THEN o[name] ELSE Undefined

\* Map.delete and Map.set
MapDelete(map, key) == [k \in DOMAIN map \ {key} |-> map[k]]
MapSet(map, key, value) == (key :> value) @@ map

NewPromise == [state |-> "pending", value |-> Scalar(NotSet), settles |-> 0]

promiseResolve(p, value) ==
    IF p.state = "pending"
    THEN [state |-> "resolved", value |-> value, settles |-> p.settles + 1]
    ELSE [p EXCEPT !.settles = p.settles + 1]

promiseReject(p, error) ==
    IF p.state = "pending"
    THEN [state |-> "rejected", value |-> Scalar(error), settles |-> p.settles + 1]
    ELSE [p EXCEPT !.settles = p.settles + 1]

\* the PromiseHandler with the promises and timers it made, as one value
Handler == [nonce |-> nonce, promises |-> promises, timeouts |-> timeouts]

CommitHandler(h) ==
    /\ nonce' = h.nonce
    /\ promises' = h.promises
    /\ timeouts' = h.timeouts

(* PromiseHandler.resolve *)

resolve(h, message) ==
    IF message.nonce \notin DOMAIN h.nonce
    THEN h
    ELSE LET promise == h.nonce[message.nonce]
             cleared == IF Field(promise, "timeout") # Undefined
                        THEN [h EXCEPT !.timeouts[message.nonce] = "cleared"]
                        ELSE h
             deleted == [cleared EXCEPT !.nonce = MapDelete(cleared.nonce, message.nonce)]
         IN  IF message._error # NotSet
             THEN [deleted EXCEPT !.promises[message.nonce] =
                                     promiseReject(@, message._error)]
             ELSE [deleted EXCEPT !.promises[message.nonce] =
                                     promiseResolve(@, message._result)]

(* PromiseHandler.insertResult.  promise.results is pushed to whether or not  *)
(* the entry is still in the Map, and it is the array a promise resolved at   *)
(* the limit holds: that promise's value shows the later pushes.              *)

\* as insertResult, resolving one result before options.limit is reached
insertResultOneEarly(h, message) ==
    IF message.nonce \notin DOMAIN h.nonce
    THEN h
    ELSE LET promise == h.nonce[message.nonce]
             failed == IF message._error # NotSet
                       THEN resolve(h, [nonce |-> message.nonce,
                                        _error |-> message._error,
                                        _result |-> Scalar(NotSet)])
                       ELSE h
             pushed == [promise EXCEPT !.results = Append(promise.results, message._result)]
             shared == [failed EXCEPT !.promises[message.nonce] =
                          IF @.state = "resolved" /\ @.value.list
                          THEN [@ EXCEPT !.value = List(pushed.results)]
                          ELSE @]
             full == IF promise.options.limit = Len(pushed.results) + 1
                     THEN resolve(shared, [nonce |-> message.nonce,
                                           _error |-> NotSet,
                                           _result |-> List(pushed.results)])
                     ELSE shared
         IN  [full EXCEPT !.nonce = MapSet(full.nonce, message.nonce, pushed)]

insertResult(h, message) ==
    IF message.nonce \notin DOMAIN h.nonce
    THEN h
    ELSE LET promise == h.nonce[message.nonce]
             failed == IF message._error # NotSet
                       THEN resolve(h, [nonce |-> message.nonce,
                                        _error |-> message._error,
                                        _result |-> Scalar(NotSet)])
                       ELSE h
             pushed == [promise EXCEPT !.results = Append(promise.results, message._result)]
             shared == [failed EXCEPT !.promises[message.nonce] =
                          IF @.state = "resolved" /\ @.value.list
                          THEN [@ EXCEPT !.value = List(pushed.results)]
                          ELSE @]
             full == IF promise.options.limit = Len(pushed.results)
                     THEN resolve(shared, [nonce |-> message.nonce,
                                           _error |-> NotSet,
                                           _result |-> List(pushed.results)])
                     ELSE shared
         IN  [full EXCEPT !.nonce = MapSet(full.nonce, message.nonce, pushed)]

(* PromiseHandler.create: the entry holds resolve, reject and options; the    *)
(* timer's handle stays in the local variable timeout.  An absent results     *)
(* reads as the empty list insertResult replaces it with.                     *)

create(h, n, options) ==
    [nonce |-> MapSet(h.nonce, n, [options |-> options, results |-> << >>]),
     promises |-> MapSet(h.promises, n, NewPromise),
     timeouts |-> MapSet(h.timeouts, n,
                         IF options.timeout # Undefined THEN "armed" ELSE "none")]

\* as createTimeout, leaving the entry in the Map
createTimeoutKeepsEntry(h, n) ==
    [h EXCEPT !.timeouts[n] = "fired",
              !.promises[n] = promiseReject(@, "Promise timed out")]

\* the callback of the timer create() armed
createTimeout(h, n) ==
    [h EXCEPT !.nonce = MapDelete(h.nonce, n),
              !.timeouts[n] = "fired",
              !.promises[n] = promiseReject(@, "Promise timed out")]

\* the Cluster's fields, which the PromiseHandler does not touch
clusterFields == << manager, thread, spawned, live, producing, ready, heartbeat,
                    hbArmed, scanDue, restarts, pending, deaths, killMark,
                    lastSpawn, window, resets >>

\* the replies handed to resolve() and to insertResult()
ResolveMessages ==
    [nonce : Nonces, _error : {NotSet}, _result : Results] \cup
    [nonce : Nonces, _error : ErrorsTried, _result : {NotSet}]

InsertMessages ==
    [nonce : Nonces, _error : {NotSet}, _result : Results] \cup
    [nonce : Nonces, _error : ErrorsTried, _result : {NotSet}]

\* handler.create(message, options) with the next nonce
Create(options) ==
    /\ \E n \in Nonces :
          /\ n \notin DOMAIN promises
          /\ \A k \in Nonces : k < n => k \in DOMAIN promises
          /\ CommitHandler(create(Handler, n, options))
    /\ lastOp' = [op |-> "create", out |-> "ok"]
    /\ UNCHANGED << clusterFields, waiters, ipcVars, others >>

\* handler.resolve(message), whether or not the nonce is registered
Resolve(message) ==
    /\ CommitHandler(resolve(Handler, [message EXCEPT !._result = Scalar(@)]))
    /\ lastOp' = [op |-> "resolve",
                  out |-> IF message.nonce \in DOMAIN nonce THEN "ok" ELSE "dropped",
                  message |-> message]
    /\ UNCHANGED << clusterFields, waiters, ipcVars, others >>

\* handler.insertResult(message)
InsertResult(message) ==
    /\ message.nonce \in DOMAIN nonce =>
           Len(nonce[message.nonce].results) < MaxResults
    /\ CommitHandler(insertResult(Handler, message))
    /\ lastOp' = [op |-> "insertResult",
                  out |-> IF message.nonce \in DOMAIN nonce THEN "ok" ELSE "dropped",
                  message |-> message]
    /\ UNCHANGED << clusterFields, waiters, ipcVars, others >>

\* options.timeout elapses for the timer of nonce n
Timeout(n) ==
    /\ n \in DOMAIN timeouts
    /\ timeouts[n] = "armed"
    /\ CommitHandler(createTimeout(Handler, n))
    /\ lastOp' = [op |-> "timeout", out |-> "ok", nonce |-> n]
    /\ UNCHANGED << clusterFields, waiters, ipcVars, others >>

HandlerInit ==
    /\ Init
    /\ manager = [keepAlive |-> EmptyObject, respawn |-> FALSE]

HandlerNext ==
    \/ \E options \in [limit : Limits, timeout : TimeoutsTried] : Create(options)
    \/ \E message \in ResolveMessages : Resolve(message)
    \/ \E message \in InsertMessages : InsertResult(message)
    \/ \E n \in Nonces : Timeout(n)

HandlerSpec == HandlerInit /\ [][HandlerNext]_vars

\* a PromiseHandler that is asked for one waiter only
OneWaiterNext ==
    \/ \E options \in [limit : Limits, timeout : TimeoutsTried] :
          promises = << >> /\ Create(options)
    \/ \E message \in ResolveMessages : Resolve(message)
    \/ \E message \in InsertMessages : InsertResult(message)
    \/ \E n \in Nonces : Timeout(n)

\* the timers create() arms fire once their delay has passed
HandlerFairSpec ==
    /\ HandlerInit
    /\ [][OneWaiterNext]_vars
    /\ \A n \in Nonces : WF_vars(Timeout(n))

---------------------------------------------------------------------------
(* C12: once the promise of a nonce registered with create() has settled     *)
(* (through resolve, through insertResult with an error or at options.limit, *)
(* or through the timeout), the Map does not contain that nonce.             *)

C12_Original ==
    \A n \in DOMAIN promises :
        promises[n].state # "pending" => n \notin DOMAIN nonce

---------------------------------------------------------------------------
(* C13: insertResult on a registered entry whose promise is pending appends  *)
(* the result to the entry's list; if the message carries an error the       *)
(* promise is rejected with it at once; otherwise the promise is resolved    *)
(* with the list, in arrival order, when this is the options.limit-th        *)
(* result, and stays pending when it is not.                                 *)

C13_InsertResultAggregates ==
    [][\A n \in DOMAIN nonce :
          (/\ Ran("insertResult")
           /\ lastOp'.message.nonce = n
           /\ promises[n].state = "pending") =>
             LET message == lastOp'.message
                 arrived == Append(nonce[n].results, message._result)
             IN  /\ n \in DOMAIN nonce'
                 /\ nonce'[n].results = arrived
                 /\ IF message._error # NotSet
                    THEN /\ promises'[n].state = "rejected"
                         /\ promises'[n].value = Scalar(message._error)
                    ELSE IF Len(arrived) = nonce[n].options.limit
                    THEN /\ promises'[n].state = "resolved"
                         /\ promises'[n].value = List(arrived)
                    ELSE promises'[n].state = "pending"]_vars

\* a promise with limit 2 was resolved with its two results, the later one
\* first in the alphabet, and another with limit 2 was rejected by an error
\* that came as its first insertion
C13_Witness ==
    /\ lastOp.op = "insertResult"
    /\ \E n \in DOMAIN nonce :
          /\ nonce[n].options.limit = 2
          /\ promises[n].state = "resolved"
          /\ promises[n].value = List(<< "b", "a" >>)
    /\ \E n \in DOMAIN nonce :
          /\ nonce[n].options.limit = 2
          /\ promises[n].state = "rejected"
          /\ promises[n].value = Scalar("error")
          /\ nonce[n].results = << NotSet >>

---------------------------------------------------------------------------
(* C14: after resolve() has completed a waiter created with options.timeout, *)
(* the timer of that waiter is not armed.                                    *)

C14_Original ==
    (/\ lastOp.op = "resolve"
     /\ lastOp.out = "ok") =>
        timeouts[lastOp.message.nonce] # "armed"

---------------------------------------------------------------------------
(* C15: a waiter created with options.timeout whose promise is pending is    *)
(* eventually settled, and the timer that finds it pending rejects it with   *)
(* 'Promise timed out' and removes its nonce from the Map in the same step.  *)

\* the waiter of nonce n is waiting with its timer armed
WaitsWithTimer(n) ==
    IF n \in DOMAIN promises
    THEN timeouts[n] = "armed" /\ promises[n].state = "pending"
    ELSE FALSE

\* the promise of nonce n has settled
Settled(n) ==
    IF n \in DOMAIN promises THEN promises[n].state # "pending" ELSE FALSE

C15_TimeoutRejects ==
    /\ \A n \in Nonces : WaitsWithTimer(n) ~> Settled(n)
    /\ [][\A n \in DOMAIN promises :
             (/\ Ran("timeout")
              /\ lastOp'.nonce = n
              /\ promises[n].state = "pending") =>
                /\ promises'[n].state = "rejected"
                /\ promises'[n].value = Scalar("Promise timed out")
                /\ n \notin DOMAIN nonce']_vars

\* the timer has rejected a waiter that had one of its two results
C15_Witness ==
    /\ lastOp.op = "timeout"
    /\ promises[lastOp.nonce].state = "rejected"
    /\ promises[lastOp.nonce].value = Scalar("Promise timed out")
    /\ promises[lastOp.nonce].settles = 1
    /\ lastOp.nonce \notin DOMAIN nonce

---------------------------------------------------------------------------
(* Requests and replies between the manager and the children: Cluster.request *)
(* and the reply branches of Cluster._handleMessage on the manager,            *)
(* evalOnManager, evalOnCluster, request and _handleMessage of ClusterClient   *)
(* on each child.  A message is the set of the discriminators it carries with  *)
(* its nonce, value, _error and target cluster.  Nonces are taken as unique.   *)

\* the scripts and the options.cluster the callers give; NotSet is no script
ScriptsTried == {"script", NotSet}
TargetsTried == Clusters \cup {Undefined}

\* what ClusterManager.evalOnManager resolves with: the spec calls the field
\* _result, Cluster._handleMessage reads _results
EvalOnManagerResults ==
    { [_results |-> "v"], [_results |-> "0"], [_results |-> ""],
      [_result |-> "v"], [_error |-> "error"] }

\* the values JavaScript takes as false, as the strings they are written with
Falsy == {"0", "", "false", "null", NotSet}

\* what ClusterClient._eval gives: a value, or the error it throws
EvalResults == { [value |-> "v", _error |-> NotSet],
                 [value |-> NotSet, _error |-> "error"] }

Message(props, n, value, error, cluster) ==
    [props |-> props, nonce |-> n, value |-> value, _error |-> error,
     cluster |-> cluster]

\* the value a request resolves with when its promise was rejected:
\* { ...message, error }
MessageWithError(error) == [list |-> FALSE, items |-> << "message", error >>]

\* promise.catch(e => ({ ...message, error: e })): what the caller of request() holds
caught(p) ==
    IF p.state = "rejected"
    THEN [state |-> "resolved", value |-> MessageWithError(p.value.items[1]),
          settles |-> p.settles]
    ELSE p

\* the traffic as one value, so that a handler is a function of it
Ipc ==
    [threads |-> threads, managerNonce |-> managerNonce, clientNonce |-> clientNonce,
     managerPromises |-> managerPromises, clientPromises |-> clientPromises,
     managerTimers |-> managerTimers, clientTimers |-> clientTimers,
     toManager |-> toManager, toClient |-> toClient, inbox |-> inbox,
     failedSends |-> failedSends, out |-> "ok"]

CommitIpc(s) ==
    /\ threads' = s.threads
    /\ managerNonce' = s.managerNonce
    /\ clientNonce' = s.clientNonce
    /\ managerPromises' = s.managerPromises
    /\ clientPromises' = s.clientPromises
    /\ managerTimers' = s.managerTimers
    /\ clientTimers' = s.clientTimers
    /\ toManager' = s.toManager
    /\ toClient' = s.toClient
    /\ inbox' = s.inbox
    /\ failedSends' = s.failedSends

\* the nonces in use on either side
Used(s) == DOMAIN s.managerPromises \cup DOMAIN s.clientPromises

\* the nonce the next request gets
FreshNonce(s) == CHOOSE n \in Nonces \ Used(s) : \A k \in Nonces \ Used(s) : n <= k

(* Cluster.send of Cluster c: thread.send hands the message to the child;    *)
(* with no thread, this.thread.send throws a TypeError                        *)

clusterSend(s, c, message) ==
    IF c \notin s.threads
    THEN [s EXCEPT !.out = "TypeError"]
    ELSE [s EXCEPT !.toClient[c] = Append(s.toClient[c], message)]

(* ClusterClient.send of child c *)

clientSend(s, c, message) ==
    [s EXCEPT !.toManager[c] = Append(s.toManager[c], message)]

\* o[name] is a property of o that is truthy
Has(o, name) == IF name \in DOMAIN o THEN o[name] \notin Falsy ELSE FALSE

\* a waiter of a ClusterClient with its timer armed
ClientWaiter(s, c, n, promise) ==
    [s EXCEPT !.clientNonce[c] = MapSet(s.clientNonce[c], n, [promise |-> n]),
              !.clientPromises = MapSet(s.clientPromises, n, promise),
              !.clientTimers = MapSet(s.clientTimers, n,
                                      [state |-> "armed", cluster |-> c])]

(* Cluster.request of Cluster c.  send() takes the message alone, so the     *)
(* callback request() hands it as fourth argument, which would arm the       *)
(* timeout and reject on a delivery error, is never called; the promise of   *)
(* thread.send is truthy.  delivered is whether the transport delivers.      *)

clusterRequest(s, c, delivered) ==
    LET n == FreshNonce(s)
        message == Message({"_sCustom", "_sRequest"}, n, "request", NotSet, Undefined)
        registered ==
            [s EXCEPT !.managerNonce = MapSet(s.managerNonce, n, [promise |-> n]),
                      !.managerPromises = MapSet(s.managerPromises, n, NewPromise),
                      !.managerTimers = MapSet(s.managerTimers, n, "none")]
        sent == clusterSend(registered, c, message)
    IN  IF sent.out = "TypeError"
        THEN [registered EXCEPT !.managerPromises[n] = promiseReject(@, "TypeError")]
        ELSE IF delivered THEN sent
        ELSE [registered EXCEPT !.failedSends = registered.failedSends \cup {n}]

(* ClusterClient.evalOnManager, evalOnCluster and request of child c.  A     *)
(* script that is no string or function, and options without a target, make  *)
(* the promise reject, after which the function goes on.                     *)

evalOnManager(s, c, script) ==
    LET n == FreshNonce(s)
        promise == IF script = NotSet THEN promiseReject(NewPromise, "TypeError")
                   ELSE NewPromise
    IN  clientSend(ClientWaiter(s, c, n, promise), c,
                   Message({"_sManagerEval"}, n, script, NotSet, Undefined))

evalOnCluster(s, c, script, cluster) ==
    LET n == FreshNonce(s)
        targeted == IF cluster = Undefined
                    THEN promiseReject(NewPromise, "TARGET CLUSTER HAS NOT BEEN PROVIDED")
                    ELSE NewPromise
        promise == IF script = NotSet THEN promiseReject(targeted, "TypeError")
                   ELSE targeted
    IN  clientSend(ClientWaiter(s, c, n, promise), c,
                   Message({"_sClusterEval"}, n, script, NotSet, cluster))

clientRequest(s, c, delivered) ==
    LET n == FreshNonce(s)
        waiting == ClientWaiter(s, c, n, NewPromise)
    IN  IF delivered
        THEN clientSend(waiting, c,
                        Message({"_sCustom", "_sRequest"}, n, "request", NotSet, Undefined))
        ELSE [waiting EXCEPT !.failedSends = waiting.failedSends \cup {n}]

(* The timer of a ClusterClient waiter *)

\* as clientTimeout, rejecting without deleting the nonce
clientTimeoutKeepsNonce(s, n) ==
    LET c == s.clientTimers[n].cluster
        fired == [s EXCEPT !.clientTimers[n].state = "fired"]
    IN  IF n \notin DOMAIN s.clientNonce[c]
        THEN fired
        ELSE [fired EXCEPT !.clientPromises[n] =
                              promiseReject(@, "EVAL Request Timed out")]

clientTimeout(s, n) ==
    LET c == s.clientTimers[n].cluster
        fired == [s EXCEPT !.clientTimers[n].state = "fired"]
    IN  IF n \notin DOMAIN s.clientNonce[c]
        THEN fired
        ELSE [fired EXCEPT !.clientPromises[n] =
                              promiseReject(@, "EVAL Request Timed out"),
                           !.clientNonce[c] = MapDelete(s.clientNonce[c], n)]

(* ClusterManager.evalOnCluster with the timer of its waiter *)

managerEvalOnCluster(s, message, requestCluster) ==
    LET n == message.nonce
        registered ==
            [s EXCEPT !.managerNonce = MapSet(s.managerNonce, n,
                                              [promise |-> n,
                                               requestCluster |-> requestCluster]),
                      !.managerPromises = MapSet(s.managerPromises, n, NewPromise),
                      !.managerTimers = MapSet(s.managerTimers, n, "armed")]
        sent == clusterSend(registered, message.cluster,
                            Message({"_sClusterEvalRequest"}, n, message.value,
                                    NotSet, message.cluster))
    IN  IF message.cluster = Undefined
        THEN [s EXCEPT !.out = "TargetClusterNotProvided"]
        ELSE IF sent.out = "TypeError"
        THEN [registered EXCEPT !.managerPromises[n] = promiseReject(@, "TypeError")]
        ELSE sent

managerTimeout(s, n) ==
    LET fired == [s EXCEPT !.managerTimers[n] = "fired"]
    IN  IF n \notin DOMAIN s.managerNonce
        THEN fired
        ELSE [fired EXCEPT !.managerPromises[n] = promiseReject(@, "TimedOut"),
                           !.managerNonce = MapDelete(s.managerNonce, n)]

(* Cluster._handleMessage of Cluster c, the branches of the request/reply    *)
(* traffic; result is what ClusterManager.evalOnManager resolves with.        *)

\* the _sManagerEval branch
managerEval(s, c, message, result) ==
    IF Has(result, "_results")
    THEN clusterSend(s, c, Message(message.props \cup {"_sManagerEvalResponse"},
                                   message.nonce, result._results, message._error,
                                   message.cluster))
    ELSE IF Has(result, "_error")
    THEN clusterSend(s, c, Message(message.props, message.nonce, message.value,
                                   result._error, message.cluster))
    ELSE s

\* as clusterEvalResponse, forwarding the envelope whether or not a waiter is found
clusterEvalResponseAlwaysForwards(s, message) ==
    LET n == message.nonce
        completed ==
            IF n \notin DOMAIN s.managerNonce THEN s
            ELSE [s EXCEPT !.managerPromises[n] =
                               IF message._error # NotSet
                               THEN promiseReject(@, message._error)
                               ELSE promiseResolve(@, Scalar(message.value)),
                           !.managerNonce = MapDelete(s.managerNonce, n)]
    IN  clusterSend(completed, CHOOSE c \in s.threads : TRUE, message)

\* the _sClusterEvalResponse branch
clusterEvalResponse(s, message) ==
    LET n == message.nonce
    IN  IF n \notin DOMAIN s.managerNonce
        THEN [s EXCEPT !.out = "dropped"]
        ELSE LET promise == s.managerNonce[n]
                 completed ==
                     [s EXCEPT !.managerPromises[n] =
                                   IF message._error # NotSet
                                   THEN promiseReject(@, message._error)
                                   ELSE promiseResolve(@, Scalar(message.value)),
                               !.managerNonce = MapDelete(s.managerNonce, n)]
             IN  IF Field(promise, "requestCluster") \in Clusters
                 THEN clusterSend(completed, promise.requestCluster, message)
                 ELSE completed

\* the _sCustom branch and the emit of 'message' it falls through to
clusterCustom(s, c, message) ==
    LET n == message.nonce
        replied ==
            IF "_sReply" \in message.props /\ n \in DOMAIN s.managerNonce
            THEN [s EXCEPT !.managerPromises[n] = promiseResolve(@, Scalar(message.value)),
                           !.managerNonce = MapDelete(s.managerNonce, n)]
            ELSE s
    IN  IF "_sRequest" \in message.props
        THEN [replied EXCEPT !.inbox = replied.inbox \cup
                                 {[side |-> "manager", cluster |-> c, nonce |-> n]},
                             !.out = "emitted"]
        ELSE [replied EXCEPT !.out = "emitted"]

clusterHandleMessage(s, c, message, result) ==
    IF "_sManagerEval" \in message.props THEN managerEval(s, c, message, result)
    ELSE IF "_sClusterEval" \in message.props THEN managerEvalOnCluster(s, message, c)
    ELSE IF "_sClusterEvalResponse" \in message.props THEN clusterEvalResponse(s, message)
    ELSE IF "_sCustom" \in message.props THEN clusterCustom(s, c, message)
    ELSE [s EXCEPT !.out = "emitted"]

(* ClusterClient._handleMessage of child c; evaluated is what _eval gives *)

\* as clientReply, resolving with the value whether or not _error is set
clientReplyIgnoresError(s, c, message, value) ==
    LET n == message.nonce
    IN  IF n \notin DOMAIN s.clientNonce[c]
        THEN [s EXCEPT !.out = "dropped"]
        ELSE [s EXCEPT !.clientPromises[n] = promiseResolve(@, Scalar(value)),
                       !.clientNonce[c] = MapDelete(s.clientNonce[c], n)]

\* the _sClusterEvalResponse and _sManagerEvalResponse branches
clientReply(s, c, message, value) ==
    LET n == message.nonce
    IN  IF n \notin DOMAIN s.clientNonce[c]
        THEN [s EXCEPT !.out = "dropped"]
        ELSE [s EXCEPT !.clientPromises[n] =
                           IF message._error # NotSet
                           THEN promiseReject(@, message._error)
                           ELSE promiseResolve(@, Scalar(value)),
                       !.clientNonce[c] = MapDelete(s.clientNonce[c], n)]

\* the _sCustom branch
clientCustom(s, c, message) ==
    LET n == message.nonce
    IN  IF "_sReply" \in message.props
        THEN IF n \notin DOMAIN s.clientNonce[c]
             THEN [s EXCEPT !.out = "dropped"]
             ELSE [s EXCEPT !.clientPromises[n] = promiseResolve(@, Scalar(message.value)),
                            !.clientNonce[c] = MapDelete(s.clientNonce[c], n)]
        ELSE IF "_sRequest" \in message.props
        THEN [s EXCEPT !.inbox = s.inbox \cup
                          {[side |-> "client", cluster |-> c, nonce |-> n]},
                       !.out = "emitted"]
        ELSE [s EXCEPT !.out = "emitted"]

clientHandleMessage(s, c, message, evaluated) ==
    IF "_sClusterEvalRequest" \in message.props
    THEN clientSend(s, c, Message({"_sClusterEvalResponse"}, message.nonce,
                                  evaluated.value, evaluated._error, message.cluster))
    ELSE IF "_sClusterEvalResponse" \in message.props
    THEN clientReply(s, c, message, message.value)
    ELSE IF "_sManagerEvalResponse" \in message.props
    THEN clientReply(s, c, message, message.value)
    ELSE IF "_sCustom" \in message.props THEN clientCustom(s, c, message)
    ELSE [s EXCEPT !.out = "ignored"]

(* IPCMessage.reply: the application answers a request it was handed *)

appReply(s, request) ==
    LET message == Message({"_sCustom", "_sReply"}, request.nonce, "reply", NotSet,
                           Undefined)
        taken == [s EXCEPT !.inbox = s.inbox \ {request}]
    IN  IF request.side = "manager"
        THEN clusterSend(taken, request.cluster, message)
        ELSE clientSend(taken, request.cluster, message)

(* The steps of the traffic *)

\* Cluster c gets its thread
SpawnCluster(c) ==
    /\ c \notin threads
    /\ CommitIpc([Ipc EXCEPT !.threads = threads \cup {c}])
    /\ lastOp' = [op |-> "spawnCluster", out |-> "ok", cluster |-> c]
    /\ UNCHANGED << clusterFields, waiters, handlerVars, others >>

ClusterRequest(c, delivered) ==
    /\ Nonces \ Used(Ipc) # {}
    /\ LET s == clusterRequest(Ipc, c, delivered)
       IN  /\ CommitIpc(s)
           /\ lastOp' = [op |-> "clusterRequest", out |-> s.out, cluster |-> c,
                         nonce |-> FreshNonce(Ipc)]
    /\ UNCHANGED << clusterFields, waiters, handlerVars, others >>

EvalOnManager(c, script) ==
    /\ c \in threads
    /\ Nonces \ Used(Ipc) # {}
    /\ CommitIpc(evalOnManager(Ipc, c, script))
    /\ lastOp' = [op |-> "evalOnManager", out |-> "ok", cluster |-> c,
                  nonce |-> FreshNonce(Ipc)]
    /\ UNCHANGED << clusterFields, waiters, handlerVars, others >>

EvalOnCluster(c, script, cluster) ==
    /\ c \in threads
    /\ Nonces \ Used(Ipc) # {}
    /\ CommitIpc(evalOnCluster(Ipc, c, script, cluster))
    /\ lastOp' = [op |-> "evalOnCluster", out |-> "ok", cluster |-> c,
                  nonce |-> FreshNonce(Ipc), target |-> cluster]
    /\ UNCHANGED << clusterFields, waiters, handlerVars, others >>

ClientRequest(c, delivered) ==
    /\ c \in threads
    /\ Nonces \ Used(Ipc) # {}
    /\ CommitIpc(clientRequest(Ipc, c, delivered))
    /\ lastOp' = [op |-> "clientRequest", out |-> "ok", cluster |-> c,
                  nonce |-> FreshNonce(Ipc)]
    /\ UNCHANGED << clusterFields, waiters, handlerVars, others >>

\* Cluster c handles the next message of its child
ClusterReceive(c, result) ==
    /\ toManager[c] # << >>
    /\ LET message == Head(toManager[c])
           s == clusterHandleMessage([Ipc EXCEPT !.toManager[c] = Tail(toManager[c])],
                                     c, message, result)
       IN  /\ CommitIpc(s)
           /\ lastOp' = [op |-> "clusterMessage", out |-> s.out, cluster |-> c,
                         nonce |-> message.nonce,
                         result |-> IF "_sManagerEval" \in message.props
                                    THEN result ELSE EmptyObject]
    /\ UNCHANGED << clusterFields, waiters, handlerVars, others >>

\* child c handles the next message of the manager
ClientReceive(c, evaluated) ==
    /\ toClient[c] # << >>
    /\ LET message == Head(toClient[c])
           s == clientHandleMessage([Ipc EXCEPT !.toClient[c] = Tail(toClient[c])],
                                    c, message, evaluated)
       IN  /\ CommitIpc(s)
           /\ lastOp' = [op |-> "clientMessage", out |-> s.out, cluster |-> c,
                         nonce |-> message.nonce]
    /\ UNCHANGED << clusterFields, waiters, handlerVars, others >>

ClientTimeout(n) ==
    /\ n \in DOMAIN clientTimers
    /\ clientTimers[n].state = "armed"
    /\ CommitIpc(clientTimeout(Ipc, n))
    /\ lastOp' = [op |-> "clientTimeout", out |-> "ok", nonce |-> n]
    /\ UNCHANGED << clusterFields, waiters, handlerVars, others >>

ManagerTimeout(n) ==
    /\ n \in DOMAIN managerTimers
    /\ managerTimers[n] = "armed"
    /\ CommitIpc(managerTimeout(Ipc, n))
    /\ lastOp' = [op |-> "managerTimeout", out |-> "ok", nonce |-> n]
    /\ UNCHANGED << clusterFields, waiters, handlerVars, others >>

\* the application answers a request it was handed
AppReply(request) ==
    /\ request \in inbox
    /\ LET s == appReply(Ipc, request)
       IN  /\ CommitIpc(s)
           /\ lastOp' = [op |-> "reply", out |-> s.out, cluster |-> request.cluster,
                         nonce |-> request.nonce]
    /\ UNCHANGED << clusterFields, waiters, handlerVars, others >>

IpcNext ==
    \/ \E c \in Clusters : SpawnCluster(c)
    \/ \E c \in Clusters, delivered \in BOOLEAN : ClusterRequest(c, delivered)
    \/ \E c \in Clusters, script \in ScriptsTried : EvalOnManager(c, script)
    \/ \E c \in Clusters, script \in ScriptsTried, cluster \in TargetsTried :
           EvalOnCluster(c, script, cluster)
    \/ \E c \in Clusters, delivered \in BOOLEAN : ClientRequest(c, delivered)
    \/ \E c \in Clusters, result \in EvalOnManagerResults : ClusterReceive(c, result)
    \/ \E c \in Clusters, evaluated \in EvalResults : ClientReceive(c, evaluated)
    \/ \E n \in Nonces : ClientTimeout(n)
    \/ \E n \in Nonces : ManagerTimeout(n)
    \/ \E request \in inbox : AppReply(request)

IpcSpec == HandlerInit /\ [][IpcNext]_vars

(* The replies of both registries in one specification: the PromiseHandler   *)
(* and the _nonce maps are separate objects that share no state, so a run     *)
(* exercises the one or the other.                                            *)

ReplyNext ==
    \/ /\ threads = {}
       /\ managerPromises = << >>
       /\ OneWaiterNext
    \/ /\ promises = << >>
       /\ IpcNext

ReplySpec == HandlerInit /\ [][ReplyNext]_vars

\* the step is Cluster c handling message, child c handling message
ClusterHandles(c) ==
    /\ lastOp'.op = "clusterMessage"
    /\ lastOp'.cluster = c
    /\ toManager[c] # << >>

ClientHandles(c) ==
    /\ lastOp'.op = "clientMessage"
    /\ lastOp'.cluster = c
    /\ toClient[c] # << >>

\* the reply branch of ClusterClient._handleMessage takes message
IsClientReply(message) ==
    /\ "_sClusterEvalRequest" \notin message.props
    /\ \/ "_sClusterEvalResponse" \in message.props
       \/ "_sManagerEvalResponse" \in message.props
       \/ {"_sCustom", "_sReply"} \subseteq message.props

\* no waiter of either side is completed or removed, none is added
RegistriesUnchanged ==
    UNCHANGED << nonce, promises, managerNonce, managerPromises, clientNonce,
                 clientPromises >>

\* C16: a reply whose nonce is not registered, handled by PromiseHandler.resolve,
\* by the _sClusterEvalResponse branch of Cluster._handleMessage or by the
\* _sClusterEvalResponse, _sManagerEvalResponse or _sCustom reply branch of
\* ClusterClient._handleMessage, completes no waiter, leaves the registries as
\* they were and is sent on to no cluster.
C16_LateReplyDropped ==
    [][/\ (Ran("resolve") /\ lastOp'.message.nonce \notin DOMAIN nonce) =>
              /\ RegistriesUnchanged
              /\ UNCHANGED << timeouts, toClient, toManager >>
       /\ \A c \in Clusters :
              (/\ ClusterHandles(c)
               /\ "_sClusterEvalResponse" \in Head(toManager[c]).props
               /\ Head(toManager[c]).nonce \notin DOMAIN managerNonce) =>
                  /\ RegistriesUnchanged
                  /\ toClient' = toClient
       /\ \A c \in Clusters :
              (/\ ClientHandles(c)
               /\ IsClientReply(Head(toClient[c]))
               /\ Head(toClient[c]).nonce \notin DOMAIN clientNonce[c]) =>
                  /\ RegistriesUnchanged
                  /\ toClient' = [toClient EXCEPT ![c] = Tail(@)]
                  /\ toManager' = toManager]_vars

\* a child handled the reply of a request whose timer had fired and rejected it
C16_Witness ==
    /\ lastOp.op = "clientMessage"
    /\ lastOp.out = "dropped"
    /\ lastOp.nonce \in DOMAIN clientTimers
    /\ clientTimers[lastOp.nonce].state = "fired"
    /\ clientPromises[lastOp.nonce].value = Scalar("EVAL Request Timed out")
    /\ lastOp.nonce \notin DOMAIN clientNonce[lastOp.cluster]

(* One request at a time, for the properties of eventual completion.  A      *)
(* setTimeout that was armed fires once its delay has passed, and a message   *)
(* the transport holds is handed to _handleMessage; the application is free   *)
(* never to reply.                                                            *)

OneRequestNext ==
    \/ \E c \in Clusters : SpawnCluster(c)
    \/ \E c \in Clusters, delivered \in BOOLEAN :
          Used(Ipc) = {} /\ ClusterRequest(c, delivered)
    \/ \E c \in Clusters, script \in ScriptsTried :
          Used(Ipc) = {} /\ EvalOnManager(c, script)
    \/ \E c \in Clusters, script \in ScriptsTried, cluster \in TargetsTried :
          Used(Ipc) = {} /\ EvalOnCluster(c, script, cluster)
    \/ \E c \in Clusters, delivered \in BOOLEAN :
          Used(Ipc) = {} /\ ClientRequest(c, delivered)
    \/ \E c \in Clusters, result \in EvalOnManagerResults : ClusterReceive(c, result)
    \/ \E c \in Clusters, evaluated \in EvalResults : ClientReceive(c, evaluated)
    \/ \E n \in Nonces : ClientTimeout(n)
    \/ \E n \in Nonces : ManagerTimeout(n)
    \/ \E request \in inbox : AppReply(request)

IpcFairSpec ==
    /\ HandlerInit
    /\ [][OneRequestNext]_vars
    /\ \A n \in Nonces : WF_vars(ClientTimeout(n))
    /\ \A n \in Nonces : WF_vars(ManagerTimeout(n))
    /\ \A c \in Clusters :
           WF_vars(\E result \in EvalOnManagerResults : ClusterReceive(c, result))
    /\ \A c \in Clusters :
           WF_vars(\E evaluated \in EvalResults : ClientReceive(c, evaluated))

\* what the caller of request() holds for nonce n: the promise after its catch
RequestFuture(n) ==
    IF n \in DOMAIN clientPromises THEN caught(clientPromises[n])
    ELSE IF n \in DOMAIN managerPromises THEN caught(managerPromises[n])
    ELSE NewPromise

\* the request of nonce n failed: its send failed, or its promise was rejected
Failed(n) ==
    \/ n \in failedSends
    \/ IF n \in DOMAIN clientPromises THEN clientPromises[n].state = "rejected"
       ELSE IF n \in DOMAIN managerPromises THEN managerPromises[n].state = "rejected"
       ELSE FALSE

\* the caller holds { ...message, error }
Converted(n) ==
    /\ RequestFuture(n).state = "resolved"
    /\ RequestFuture(n).value.items[1] = "message"

\* C17 as stated: the future of request() never rejects, and every failure
\* (a send that fails, no live thread, the timeout) ends as the resolved value
\* { ...message, error }.
C17_Original ==
    /\ [](\A n \in Nonces : RequestFuture(n).state # "rejected")
    /\ \A n \in Nonces : Failed(n) ~> Converted(n)

\* a request of the manager that was sent waits for its reply
ClusterRequestWaits(n) ==
    IF n \in DOMAIN managerNonce
    THEN /\ "requestCluster" \notin DOMAIN managerNonce[n]
         /\ managerPromises[n].state = "pending"
    ELSE FALSE

\* the request of nonce n has completed: the caller holds a value and the
\* registry of the manager holds the nonce no more
ClusterRequestCompleted(n) ==
    /\ n \in DOMAIN managerPromises
    /\ n \notin DOMAIN managerNonce
    /\ RequestFuture(n).state = "resolved"

\* C18 as stated: a Cluster.request whose reply never arrives completes in the
\* end, its nonce removed from the registry of the manager.
C18_Original ==
    \A n \in Nonces : ClusterRequestWaits(n) ~> ClusterRequestCompleted(n)

\* nonce n is in the _nonce map of child c; the promise of nonce n has settled
ClientRegistered(c, n) == n \in DOMAIN clientNonce[c]

ClientSettled(n) ==
    IF n \in DOMAIN clientPromises THEN clientPromises[n].state # "pending" ELSE FALSE

\* C19: every nonce evalOnManager, evalOnCluster or request put into the _nonce
\* map of a child is removed in the end, with its future settled; the step that
\* removes it is the child handling the reply of that nonce or the timer of that
\* nonce, it settles a future that was pending with that one call, and nothing
\* touches the future once the nonce is gone or the future has settled.
C19_ChildNonceCompletesOnce ==
    /\ \A c \in Clusters, n \in Nonces :
           ClientRegistered(c, n) ~> (~ClientRegistered(c, n) /\ ClientSettled(n))
    /\ [][\A c \in Clusters, n \in Nonces :
             /\ (ClientRegistered(c, n) /\ ~ClientRegistered(c, n)') =>
                   /\ lastOp'.op \in {"clientMessage", "clientTimeout"}
                   /\ lastOp'.nonce = n
                   /\ clientPromises'[n].state # "pending"
                   /\ clientPromises[n].state = "pending" =>
                          clientPromises'[n].settles = 1
             /\ (n \in DOMAIN clientPromises /\ ~ClientRegistered(c, n)
                   /\ clientTimers[n].cluster = c) =>
                   clientPromises'[n] = clientPromises[n]
             /\ (n \in DOMAIN clientPromises /\ ClientSettled(n)) =>
                   /\ clientPromises'[n].state = clientPromises[n].state
                   /\ clientPromises'[n].value = clientPromises[n].value]_vars

\* the timer of a child's request fired with no reply and rejected it, after
\* which the caller holds { ...message, error }
C19_Witness ==
    /\ lastOp.op = "clientTimeout"
    /\ clientPromises[lastOp.nonce] =
           [state |-> "rejected", value |-> Scalar("EVAL Request Timed out"),
            settles |-> 1]
    /\ \A c \in Clusters : lastOp.nonce \notin DOMAIN clientNonce[c]
    /\ Converted(lastOp.nonce)

\* the state and value a promise has settled with
Outcome(p) == [state |-> p.state, value |-> p.value]

\* what the envelope of an eval response settles a pending promise with
EnvelopeOutcome(message) ==
    IF message._error # NotSet
    THEN [state |-> "rejected", value |-> Scalar(message._error)]
    ELSE [state |-> "resolved", value |-> Scalar(message.value)]

\* the manager handles _sClusterEvalResponse of nonce n with a waiter tagged
\* requestCluster = A registered under n: it completes the waiter, removes n and
\* puts that envelope once on the channel to A, on no other
ManagerRoutes ==
    \A c \in Clusters, A \in Clusters :
        (/\ ClusterHandles(c)
         /\ "_sClusterEvalResponse" \in Head(toManager[c]).props
         /\ Head(toManager[c]).nonce \in DOMAIN managerNonce
         /\ Field(managerNonce[Head(toManager[c]).nonce], "requestCluster") = A
         /\ A \in threads) =>
            LET message == Head(toManager[c])
                n == message.nonce
            IN  /\ managerPromises[n].state = "pending"
                /\ Outcome(managerPromises'[n]) = EnvelopeOutcome(message)
                /\ n \notin DOMAIN managerNonce'
                /\ toClient' = [toClient EXCEPT ![A] = Append(@, message)]

\* child A handles the envelope the manager sent on
RequesterHandles(A) ==
    /\ ClientHandles(A)
    /\ "_sClusterEvalResponse" \in Head(toClient[A]).props
    /\ "_sClusterEvalRequest" \notin Head(toClient[A]).props

\* child A completes its waiter n with the outcome the manager's waiter got:
\* it finds n registered, calls resolve or reject of that waiter with what the
\* envelope carries, which settles the future unless the call had rejected it
\* at validation, and removes n
CompletesWaiter(A) ==
    LET message == Head(toClient[A])
        n == message.nonce
    IN  /\ n \in DOMAIN clientNonce[A]
        /\ n \notin DOMAIN clientNonce'[A]
        /\ EnvelopeOutcome(message) = Outcome(managerPromises[n])
        /\ clientPromises'[n].settles = clientPromises[n].settles + 1
        /\ Outcome(clientPromises'[n]) =
               IF clientPromises[n].state = "pending"
               THEN Outcome(managerPromises[n])
               ELSE Outcome(clientPromises[n])

---------------------------------------------------------------------------
(* The answer to _sManagerEval *)

\* evalOnManager answered in the shape _handleMessage reads: _results, _error
ReadableResult(result) == DOMAIN result \subseteq {"_results", "_error"}

\* C21 as stated: every _sManagerEval request a Cluster receives is answered
\* with exactly one envelope that echoes the nonce and carries
\* _sManagerEvalResponse or _error, whatever value the evaluation produced
\* (0, false, null, undefined and the empty string included).
C21_Original ==
    [][\A c \in Clusters :
          (/\ ClusterHandles(c)
           /\ "_sManagerEval" \in Head(toManager[c]).props
           /\ ReadableResult(lastOp'.result)
           /\ c \in threads) =>
              /\ Len(toClient'[c]) = Len(toClient[c]) + 1
              /\ LET reply == toClient'[c][Len(toClient'[c])]
                 IN  /\ reply.nonce = Head(toManager[c]).nonce
                     /\ \/ "_sManagerEvalResponse" \in reply.props
                        \/ reply._error # NotSet]_vars

\* the discriminators of the dispatch table of Cluster._handleMessage that the
\* traffic carries; a message with one of them matched a row before 'otherwise'
Matched(message) ==
    \/ "_sManagerEval" \in message.props
    \/ "_sClusterEval" \in message.props
    \/ "_sClusterEvalResponse" \in message.props
    \/ {"_sCustom", "_sReply"} \subseteq message.props
    \/ {"_sCustom", "_sRequest"} \subseteq message.props

\* C22 as stated: exactly one row of the dispatch table acts on a message; one
\* that matched a discriminator, _sCustom with _sReply or with _sRequest
\* included, is never also wrapped as an IPCMessage and emitted as 'message'.
C22_Original ==
    [][\A c \in Clusters :
          (ClusterHandles(c) /\ Matched(Head(toManager[c]))) =>
              lastOp'.out # "emitted"]_vars

---------------------------------------------------------------------------
(* Cluster.eval and Cluster.fetchClientValue: the promise of a call is cached *)
(* in _evals or _fetches under its script or prop, its listener hangs on the   *)
(* 'message' event of the child process the thread had at the call, and eval   *)
(* arms its timer when a timeout was given.  spawn() and _handleExit() clear   *)
(* both Maps; Child.kill() removes every listener of the process.  The send    *)
(* and the callbacks of its promise are taken as one step with the call.       *)

MaxCalls == 3

\* the child processes a run forks
Forks == {1, 2}

Scripts == {"s"}
Props == {"p"}
EvalTimeouts == {Undefined, 10000}

\* a call that made a promise: kind and key of what it asked, the process its
\* listener hangs on, whether the listener is attached, its timer, its promise
\* and the process whose reply completed it (0: none)
NewCall(kind, key, process, timer) ==
    [kind |-> kind, key |-> key, child |-> process, listening |-> TRUE,
     timer |-> timer, promise |-> NewPromise, from |-> 0]

Eval ==
    [child |-> child, forked |-> forked, evals |-> evals, fetches |-> fetches,
     calls |-> calls, requests |-> requests, out |-> "ok", future |-> 0]

CommitEval(e) ==
    /\ child' = e.child
    /\ forked' = e.forked
    /\ evals' = e.evals
    /\ fetches' = e.fetches
    /\ calls' = e.calls
    /\ requests' = e.requests

\* spawn(): a new Thread forks a new process; _evals.clear(), _fetches.clear()
evalSpawn(e) ==
    [e EXCEPT !.child = e.forked + 1,
              !.forked = e.forked + 1,
              !.requests = Append(e.requests, << >>),
              !.evals = << >>,
              !.fetches = << >>]

\* _handleExit(): thread = null; _evals.clear(), _fetches.clear()
evalHandleExit(e) ==
    [e EXCEPT !.child = 0, !.evals = << >>, !.fetches = << >>]

\* kill(): Child.kill() removes all listeners of the process and kills it,
\* then _handleExit(false)
evalKill(e) ==
    evalHandleExit(
        [e EXCEPT !.calls = [i \in DOMAIN e.calls |->
                                IF e.calls[i].child = e.child
                                THEN [e.calls[i] EXCEPT !.listening = FALSE]
                                ELSE e.calls[i]],
                  !.requests[e.child] = << >>])

\* the call with its promise rejected once through reject(error)
rejected(call, error) == [call EXCEPT !.promise = promiseReject(@, error)]

(* Cluster.eval(script, context, timeout); delivered is whether thread.send   *)
(* resolves.  The timer is armed in the then() of the send when timeout is     *)
(* truthy; a send that fails removes the listener and the entry and rejects,   *)
(* which leaves nothing of the call but the rejected promise it returned.      *)

\* as eval, caching under the script the rejection a missing child gets
evalCachesRejection(e, script, timeout, delivered) ==
    IF e.child = 0
    THEN [e EXCEPT !.out = "CLUSTERING_NO_CHILD_EXISTS",
                   !.evals = MapSet(e.evals, script, 0)]
    ELSE IF script \in DOMAIN e.evals
    THEN [e EXCEPT !.out = "cached", !.future = e.evals[script]]
    ELSE LET id == Len(e.calls) + 1
             timer == IF timeout # Undefined /\ timeout # 0 THEN "armed" ELSE "none"
             call == NewCall("eval", script, e.child, timer)
         IN  IF delivered
             THEN [e EXCEPT !.calls = Append(e.calls, call),
                            !.requests[e.child] =
                                Append(@, [kind |-> "eval", key |-> script]),
                            !.evals = MapSet(e.evals, script, id),
                            !.future = id]
             ELSE [e EXCEPT !.out = "send failed"]

eval(e, script, timeout, delivered) ==
    IF e.child = 0
    THEN [e EXCEPT !.out = "CLUSTERING_NO_CHILD_EXISTS"]
    ELSE IF script \in DOMAIN e.evals
    THEN [e EXCEPT !.out = "cached", !.future = e.evals[script]]
    ELSE LET id == Len(e.calls) + 1
             timer == IF timeout # Undefined /\ timeout # 0 THEN "armed" ELSE "none"
             call == NewCall("eval", script, e.child, timer)
         IN  IF delivered
             THEN [e EXCEPT !.calls = Append(e.calls, call),
                            !.requests[e.child] =
                                Append(@, [kind |-> "eval", key |-> script]),
                            !.evals = MapSet(e.evals, script, id),
                            !.future = id]
             ELSE [e EXCEPT !.out = "send failed"]

(* Cluster.fetchClientValue(prop): as eval, with no timer *)

fetchClientValue(e, prop, delivered) ==
    IF e.child = 0
    THEN [e EXCEPT !.out = "CLUSTERING_NO_CHILD_EXISTS"]
    ELSE IF prop \in DOMAIN e.fetches
    THEN [e EXCEPT !.out = "cached", !.future = e.fetches[prop]]
    ELSE LET id == Len(e.calls) + 1
             call == NewCall("fetch", prop, e.child, "none")
         IN  IF delivered
             THEN [e EXCEPT !.calls = Append(e.calls, call),
                            !.requests[e.child] =
                                Append(@, [kind |-> "fetch", key |-> prop]),
                            !.fetches = MapSet(e.fetches, prop, id),
                            !.future = id]
             ELSE [e EXCEPT !.out = "send failed"]

(* The listeners: a message of process p reaches the listeners attached to p  *)

\* as hears, with the listener attached to the Cluster instead of the process
hearsAnyProcess(call, p, message) ==
    /\ call.listening
    /\ call.kind = message.kind
    /\ call.key = message.key

\* the listener of call is attached to process p and takes message
hears(call, p, message) ==
    /\ call.listening
    /\ call.child = p
    /\ call.kind = message.kind
    /\ call.key = message.key

\* the listener of a call runs: clearTimeout, removeListener, resolve or
\* reject (fetchClientValue's listener reads no _error)
heard(call, p, message) ==
    [call EXCEPT !.listening = FALSE,
                 !.timer = IF call.timer = "armed" THEN "cleared" ELSE @,
                 !.promise = IF call.kind = "eval" /\ message._error # NotSet
                             THEN promiseReject(@, message._error)
                             ELSE promiseResolve(@, Scalar(message._result)),
                 !.from = p]

\* the child answers the oldest request it holds and the reply is emitted on
\* its process: each listener that takes it deletes the entry of its key
childAnswers(e, result) ==
    LET p == e.child
        request == Head(e.requests[p])
        message == [kind |-> request.kind, key |-> request.key,
                    _result |-> result.value, _error |-> result._error]
        taken == \E i \in DOMAIN e.calls : hears(e.calls[i], p, message)
    IN  [e EXCEPT !.requests[p] = Tail(@),
                  !.calls = [i \in DOMAIN e.calls |->
                                IF hears(e.calls[i], p, message)
                                THEN heard(e.calls[i], p, message)
                                ELSE e.calls[i]],
                  !.evals = IF taken /\ request.kind = "eval"
                            THEN MapDelete(e.evals, request.key) ELSE @,
                  !.fetches = IF taken /\ request.kind = "fetch"
                              THEN MapDelete(e.fetches, request.key) ELSE @,
                  !.out = IF taken THEN "ok" ELSE "unheard"]

\* the timer of an eval call fires
evalTimeout(e, id) ==
    LET call == e.calls[id]
    IN  IF call.key \notin DOMAIN e.evals
        THEN [e EXCEPT !.calls[id].timer = "fired", !.out = "returned"]
        ELSE [e EXCEPT !.calls[id] =
                          rejected([call EXCEPT !.timer = "fired",
                                                !.listening = FALSE],
                                   "BROADCAST_EVAL_REQUEST_TIMED_OUT"),
                       !.evals = MapDelete(e.evals, call.key)]

(* The steps of eval and fetchClientValue *)

EvalSpawn ==
    /\ child = 0
    /\ forked + 1 \in Forks
    /\ CommitEval(evalSpawn(Eval))
    /\ lastOp' = [op |-> "spawn", out |-> "ok", future |-> 0]
    /\ UNCHANGED evalFrame

EvalKill ==
    /\ child # 0
    /\ CommitEval(evalKill(Eval))
    /\ lastOp' = [op |-> "kill", out |-> "ok", future |-> 0]
    /\ UNCHANGED evalFrame

\* the child exits by itself; restart is manager.respawn
EvalExit(restart) ==
    /\ child # 0
    /\ restart => forked + 1 \in Forks
    /\ CommitEval(IF restart THEN evalSpawn(evalHandleExit(Eval))
                  ELSE evalHandleExit(Eval))
    /\ lastOp' = [op |-> "exit", out |-> "ok", future |-> 0]
    /\ UNCHANGED evalFrame

CallEval(script, timeout, delivered) ==
    /\ (child # 0 /\ script \notin DOMAIN evals) => Len(calls) < MaxCalls
    /\ LET e == eval(Eval, script, timeout, delivered)
       IN  /\ CommitEval(e)
           /\ lastOp' = [op |-> "eval", out |-> e.out, future |-> e.future,
                         key |-> script]
    /\ UNCHANGED evalFrame

CallFetch(prop, delivered) ==
    /\ (child # 0 /\ prop \notin DOMAIN fetches) => Len(calls) < MaxCalls
    /\ LET e == fetchClientValue(Eval, prop, delivered)
       IN  /\ CommitEval(e)
           /\ lastOp' = [op |-> "fetchClientValue", out |-> e.out,
                         future |-> e.future, key |-> prop]
    /\ UNCHANGED evalFrame

ChildAnswers(result) ==
    /\ child # 0
    /\ requests[child] # << >>
    /\ LET e == childAnswers(Eval, result)
       IN  /\ CommitEval(e)
           /\ lastOp' = [op |-> "answer", out |-> e.out, future |-> 0]
    /\ UNCHANGED evalFrame

EvalTimeout(id) ==
    /\ id \in DOMAIN calls
    /\ calls[id].timer = "armed"
    /\ LET e == evalTimeout(Eval, id)
       IN  /\ CommitEval(e)
           /\ lastOp' = [op |-> "evalTimeout", out |-> e.out, future |-> id]
    /\ UNCHANGED evalFrame

EvalNext ==
    \/ EvalSpawn
    \/ EvalKill
    \/ \E restart \in BOOLEAN : EvalExit(restart)
    \/ \E script \in Scripts, timeout \in EvalTimeouts, delivered \in BOOLEAN :
          CallEval(script, timeout, delivered)
    \/ \E prop \in Props, delivered \in BOOLEAN : CallFetch(prop, delivered)
    \/ \E result \in EvalResults : ChildAnswers(result)
    \/ \E id \in 1..MaxCalls : EvalTimeout(id)

EvalSpec == HandlerInit /\ [][EvalNext]_vars

\* call i is pending on the process the Cluster has now
PendingHere(i) ==
    /\ calls[i].child = child
    /\ calls[i].promise.state = "pending"

\* the step is eval(key) or fetchClientValue(key) on a live Cluster
Asks(op, key) ==
    /\ Ran(op)
    /\ lastOp'.key = key
    /\ child # 0

\* C23 as stated: while an eval of script s (a fetchClientValue of prop p) is
\* pending on a Cluster, a further call with the same s (p) sends no envelope
\* and returns the same future; the reply or the timeout that completes it
\* removes the memo entry.
C23_Original ==
    [][/\ \A i \in DOMAIN calls :
             /\ (PendingHere(i) /\ calls[i].kind = "eval"
                   /\ Asks("eval", calls[i].key)) =>
                   (requests' = requests /\ lastOp'.future = i)
             /\ (PendingHere(i) /\ calls[i].kind = "fetch"
                   /\ Asks("fetchClientValue", calls[i].key)) =>
                   (requests' = requests /\ lastOp'.future = i)
       /\ \A i \in DOMAIN calls :
             (/\ calls[i].promise.state = "pending"
              /\ calls'[i].promise.state # "pending") =>
                 /\ calls[i].kind = "eval" =>
                        calls[i].key \notin DOMAIN evals'
                 /\ calls[i].kind = "fetch" =>
                        calls[i].key \notin DOMAIN fetches']_vars

\* C24 as stated: an eval future with a timeout that is pending when its
\* Cluster is killed, exits or is respawned is rejected with
\* BROADCAST_EVAL_REQUEST_TIMED_OUT when its timeout elapses.
C24_Original ==
    [][\A id \in DOMAIN calls :
          (/\ Ran("evalTimeout")
           /\ lastOp'.future = id
           /\ calls[id].child # child
           /\ calls[id].promise.state = "pending") =>
              /\ calls'[id].promise.state = "rejected"
              /\ calls'[id].promise.value =
                     Scalar("BROADCAST_EVAL_REQUEST_TIMED_OUT")]_vars

\* C25: a future of eval or fetchClientValue is completed by a reply only of
\* the process the Cluster had when it was issued, never of a later one,
\* whatever is asked again after the respawn.
C25_NoReplyAcrossRespawn ==
    \A i \in DOMAIN calls : calls[i].from \in {0, calls[i].child}

\* a call issued before a respawn still waits with its listener on the old
\* process, after the same script or prop, asked again, was answered by the
\* new process
C25_Witness ==
    \E i \in DOMAIN calls, j \in DOMAIN calls :
        /\ i < j
        /\ calls[i].kind = calls[j].kind
        /\ calls[i].key = calls[j].key
        /\ calls[i].child = 1
        /\ calls[i].listening
        /\ calls[i].promise.state = "pending"
        /\ calls[j].child = 2
        /\ calls[j].from = 2
        /\ calls[j].promise.state = "resolved"

---------------------------------------------------------------------------
(* The child's side of the heartbeat and of the spawn queue: ClusterClient.
   The manager appears here only through what it sends back to the child
   and through its spawn queue; what the same messages do to the Cluster's
   own fields is the lifecycle model above. *)

\* the number of counted misses at which the child gives up
AckMissLimit == 5

\* setInterval calls the child may make
MaxIntervals == 4
\* messages the child has sent that its Cluster has not handled yet
MaxOutbox == 2
\* acks on their way to the child
MaxAcks == 1
\* advances of the spawn queue after which the child asks for no more
MaxAdvances == 2

QueueModes == {"auto", "manual"}

\* what getData() hands to the constructor
Infos == [KEEP_ALIVE_INTERVAL : {Undefined} \cup KeepAliveIntervals,
          CLUSTER_QUEUE_MODE : QueueModes]

Made == DOMAIN client # {}

Client ==
    [client |-> client, intervals |-> intervals, late |-> late,
     outbox |-> outbox, acks |-> acks, queue |-> queue, out |-> "ok"]

CommitClient(k) ==
    /\ client' = k.client
    /\ intervals' = k.intervals
    /\ late' = k.late
    /\ outbox' = k.outbox
    /\ acks' = k.acks
    /\ queue' = k.queue

\* new ClusterClient(client): the fields the heartbeat and the queue hook use
newClient(k, info) ==
    [k EXCEPT !.client = [keepAliveInterval |->
                              IF IsNum(info.KEEP_ALIVE_INTERVAL)
                              THEN info.KEEP_ALIVE_INTERVAL ELSE 0,
                          queue |-> [mode |-> info.CLUSTER_QUEUE_MODE],
                          ready |-> FALSE,
                          heartbeat |-> EmptyObject],
              !.queue.mode = info.CLUSTER_QUEUE_MODE]

\* ChildClient.send / process.send
processSend(k, message) == [k EXCEPT !.outbox = Append(@, message)]

setInterval(k, kind) ==
    [k EXCEPT !.intervals = Append(@, [kind |-> kind, armed |-> TRUE])]

\* clearInterval(id); clearInterval(undefined) does nothing
clearInterval(k, id) ==
    IF id \in DOMAIN k.intervals
    THEN [k EXCEPT !.intervals[id].armed = FALSE]
    ELSE k

\* ClusterClient._cleanupHeartbeat
clientCleanupHeartbeat(k) ==
    LET a == clearInterval(k, Field(k.client.heartbeat, "interval"))
        b == clearInterval(a, Field(k.client.heartbeat, "ack"))
    IN  [b EXCEPT !.client.heartbeat = EmptyObject]

\* ClusterClient._checkIfClusterAlive: arms the producer of _keepAlive
clientCheckIfClusterAlive(k) ==
    LET a == setInterval(k, "keepAlive")
    IN  [a EXCEPT !.client.heartbeat =
                      MapSet(@, "interval", Len(a.intervals))]

\* ClusterClient._checkIfAckReceived: arms the scan for acks
checkIfAckReceived(k) ==
    LET a == setInterval(k, "ack")
    IN  [a EXCEPT !.client.heartbeat = MapSet(@, "ack", Len(a.intervals))]

\* ClusterClient._heartbeatAckMessage: last = Date.now(), so nothing is late
heartbeatAckMessage(k) ==
    [k EXCEPT !.client.heartbeat = MapSet(MapSet(@, "last", 1), "missed", 0),
              !.late = FALSE]

\* ClusterClient.triggerReady
triggerReady(k) ==
    LET a == processSend(k, "_ready")
        b == IF a.client.keepAliveInterval # 0
             THEN checkIfAckReceived(
                      clientCheckIfClusterAlive(clientCleanupHeartbeat(a)))
             ELSE a
    IN  [b EXCEPT !.client.ready = TRUE]

\* the callback of the producer timer
keepAliveBeat(k) == processSend(k, "_keepAlive")

\* as ackScan, giving up without clearing the producer
ackScanKeepsProducer(k) ==
    LET hb == k.client.heartbeat
        missed == IF Field(hb, "missed") = Undefined
                  THEN 1 ELSE hb["missed"] + 1
        counted == [k EXCEPT !.client.heartbeat = MapSet(@, "missed", missed)]
    IN  IF "last" \notin DOMAIN hb THEN [k EXCEPT !.out = "NaN"]
        ELSE IF ~k.late THEN [k EXCEPT !.out = "in time"]
        ELSE IF missed < AckMissLimit THEN [counted EXCEPT !.out = "missed"]
        ELSE [clearInterval(counted, Field(hb, "ack"))
                  EXCEPT !.client.heartbeat = EmptyObject, !.out = "teardown"]

\* the callback of the timer of _checkIfAckReceived; late stands for
\* Date.now() - heartbeat.last > keepAliveInterval + 2000
ackScan(k) ==
    LET hb == k.client.heartbeat
        missed == IF Field(hb, "missed") \in {Undefined, 0}
                  THEN 1 ELSE hb["missed"] + 1
        counted == [k EXCEPT !.client.heartbeat = MapSet(@, "missed", missed)]
    IN  IF "last" \notin DOMAIN hb THEN [k EXCEPT !.out = "NaN"]
        ELSE IF ~k.late THEN [k EXCEPT !.out = "in time"]
        ELSE IF missed < AckMissLimit THEN [counted EXCEPT !.out = "missed"]
        ELSE [clientCleanupHeartbeat(counted) EXCEPT !.out = "teardown"]

\* as spawnNextCluster, without the test of the queue mode
spawnNextClusterAnyMode(k) == processSend(k, "_spawnNextCluster")

\* ClusterClient.spawnNextCluster
spawnNextCluster(k) ==
    IF k.client.queue.mode = "auto"
    THEN [k EXCEPT !.out = "SpawnQueueAuto"]
    ELSE processSend(k, "_spawnNextCluster")

\* manager.queue.next(): an error in auto mode, one step forward otherwise
queueNext(q) ==
    IF q.mode = "auto" THEN q ELSE [q EXCEPT !.nexts = @ + 1]

\* Cluster._handleMessage for what the child sent: a _keepAlive is answered
\* with an ack when the send works, a _spawnNextCluster advances the queue
clusterTakes(k, delivered) ==
    LET message == Head(k.outbox)
        a == [k EXCEPT !.outbox = Tail(@)]
    IN  CASE message = "_keepAlive" ->
                 IF delivered
                 THEN [a EXCEPT !.acks = @ + 1, !.out = "ack"]
                 ELSE [a EXCEPT !.out = "ACK_FAILED"]
          [] message = "_spawnNextCluster" ->
                 [a EXCEPT !.queue = queueNext(@), !.out = "next"]
          [] OTHER -> [a EXCEPT !.out = "ready"]

NewClient(info) ==
    /\ ~Made
    /\ CommitClient(newClient(Client, info))
    /\ lastOp' = [op |-> "new", out |-> "ok"]
    /\ UNCHANGED clientFrame

TriggerReady ==
    /\ Made
    /\ Len(outbox) < MaxOutbox
    /\ Len(intervals) + 2 <= MaxIntervals
    /\ CommitClient(triggerReady(Client))
    /\ lastOp' = [op |-> "triggerReady", out |-> "ok"]
    /\ UNCHANGED clientFrame

KeepAliveBeat(id) ==
    /\ id \in DOMAIN intervals
    /\ intervals[id] = [kind |-> "keepAlive", armed |-> TRUE]
    /\ Len(outbox) < MaxOutbox
    /\ CommitClient(keepAliveBeat(Client))
    /\ lastOp' = [op |-> "keepAlive", out |-> "ok"]
    /\ UNCHANGED clientFrame

AckScan(id) ==
    /\ id \in DOMAIN intervals
    /\ intervals[id] = [kind |-> "ack", armed |-> TRUE]
    /\ LET k == ackScan(Client)
       IN  /\ CommitClient(k)
           /\ lastOp' = [op |-> "ackScan", out |-> k.out]
    /\ UNCHANGED clientFrame

\* more than keepAliveInterval + 2000 ms pass without an ack
Elapse ==
    /\ Made
    /\ "last" \in DOMAIN client.heartbeat
    /\ ~late
    /\ late' = TRUE
    /\ lastOp' = [op |-> "elapse", out |-> "ok"]
    /\ UNCHANGED << client, intervals, outbox, acks, queue, clientFrame >>

\* ClusterClient._handleMessage for { ack: true }
ClientAck ==
    /\ acks > 0
    /\ CommitClient(heartbeatAckMessage([Client EXCEPT !.acks = @ - 1]))
    /\ lastOp' = [op |-> "ack", out |-> "ok"]
    /\ UNCHANGED clientFrame

SpawnNextCluster ==
    /\ Made
    /\ Len(outbox) < MaxOutbox
    /\ queue.nexts < MaxAdvances
    /\ LET k == spawnNextCluster(Client)
       IN  /\ CommitClient(k)
           /\ lastOp' = [op |-> "spawnNextCluster", out |-> k.out]
    /\ UNCHANGED clientFrame

ClusterTakes(delivered) ==
    /\ outbox # << >>
    /\ acks < MaxAcks
    /\ LET k == clusterTakes(Client, delivered)
       IN  /\ CommitClient(k)
           /\ lastOp' = [op |-> "clusterTakes", out |-> k.out]
    /\ UNCHANGED clientFrame

ClientNext ==
    \/ \E info \in Infos : NewClient(info)
    \/ TriggerReady
    \/ \E id \in 1..MaxIntervals + 1 : KeepAliveBeat(id)
    \/ \E id \in 1..MaxIntervals + 1 : AckScan(id)
    \/ Elapse
    \/ ClientAck
    \/ SpawnNextCluster
    \/ \E delivered \in BOOLEAN : ClusterTakes(delivered)

ClientSpec == HandlerInit /\ [][ClientNext]_vars

---------------------------------------------------------------------------
(* Claims about the child's heartbeat and the spawn queue hook *)

ArmedIntervals == {id \in DOMAIN intervals : intervals[id].armed}

\* the step appended this message to what the child has sent
ChildSends(message) ==
    /\ Len(outbox') = Len(outbox) + 1
    /\ outbox'[Len(outbox')] = message

TearsDown == Ran("ackScan") /\ lastOp'.out = "teardown"

\* C26: a scan for acks that has counted fewer than 5 misses since the last
\* ack leaves both timers of the child armed, so that the producer goes on
\* sending _keepAlive; the scan that counts the 5th miss, and only that one,
\* clears every timer and empties the heartbeat record; a _keepAlive is sent
\* only while the record holds an armed producer, so none is sent after the
\* teardown unless the client reports ready again; an ack sets missed to 0.
C26_AckConsumer ==
    [][ /\ (Ran("ackScan") /\ ~TearsDown) =>
               /\ intervals' = intervals
               /\ Field(client'.heartbeat, "interval") \in ArmedIntervals
               /\ Field(client'.heartbeat, "ack") \in ArmedIntervals
        /\ TearsDown <=>
               /\ Ran("ackScan")
               /\ late
               /\ Field(client.heartbeat, "missed") = AckMissLimit - 1
        /\ TearsDown =>
               /\ client'.heartbeat = EmptyObject
               /\ \A id \in DOMAIN intervals' : ~intervals'[id].armed
               /\ outbox' = outbox
        /\ ChildSends("_keepAlive") =>
               Field(client.heartbeat, "interval") \in ArmedIntervals
        /\ Ran("ack") => Field(client'.heartbeat, "missed") = 0
      ]_vars

\* the child gave up after five misses, having sent beats before
C26_Witness ==
    /\ lastOp.op = "ackScan"
    /\ lastOp.out = "teardown"
    /\ client.heartbeat = EmptyObject
    /\ ArmedIntervals = {}

\* C27: spawnNextCluster of a child in auto mode raises SpawnQueueAuto and
\* sends nothing; in manual mode it sends exactly one _spawnNextCluster, and
\* the Cluster that handles it advances the spawn queue by exactly one.
C27_SpawnNextCluster ==
    [][ /\ (Ran("spawnNextCluster") /\ client.queue.mode = "auto") =>
               /\ lastOp'.out = "SpawnQueueAuto"
               /\ outbox' = outbox
        /\ (Ran("spawnNextCluster") /\ client.queue.mode = "manual") =>
               /\ lastOp'.out = "ok"
               /\ outbox' = Append(outbox, "_spawnNextCluster")
        /\ (Ran("clusterTakes") /\ Head(outbox) = "_spawnNextCluster") =>
               queue'.nexts = queue.nexts + 1
      ]_vars

\* a child in manual mode asked for the next Cluster and the queue advanced
C27_Witness ==
    /\ lastOp.op = "clusterTakes"
    /\ lastOp.out = "next"
    /\ queue = [mode |-> "manual", nexts |-> 1]

---------------------------------------------------------------------------
(* The child's handler of _fetchProp: ClusterClient._handleMessage.
   A dotted path is held as the list of its segments, which is what
   split('.') makes of it; the empty path is not a request, '' being falsy. *)

Segments == {"a", "b"}

\* the longest path asked for
MaxPath == 3

Primitive(x) == [primitive |-> x]
UndefinedValue == Primitive(NotSet)
NullValue == Primitive("null")

\* what value[prop] throws on undefined and on null
Thrown == [thrown |-> "TypeError"]

Leaves == {Primitive("v"), Primitive("w"), NullValue}
Objects1 == UNION {[S -> Leaves] : S \in SUBSET Segments}
\* the client objects tried: properties nested two deep
ClientObjects == UNION {[S -> Leaves \cup Objects1] : S \in SUBSET Segments}

Paths == UNION {[1..n -> Segments] : n \in 1..MaxPath}

IsPrimitive(value) == DOMAIN value = {"primitive"}

\* value[prop] read as the path asks for it, a missing property giving
\* undefined wherever it is missing
getOrUndefined(value, prop) ==
    IF IsPrimitive(value) THEN UndefinedValue
    ELSE IF prop \in DOMAIN value THEN value[prop]
    ELSE UndefinedValue

\* value[prop]
get(value, prop) ==
    IF value \in {UndefinedValue, NullValue} THEN Thrown
    ELSE IF IsPrimitive(value) THEN UndefinedValue
    ELSE IF prop \in DOMAIN value THEN value[prop]
    ELSE UndefinedValue

\* for (const prop of props) value = value[prop]
RECURSIVE walk(_, _)
walk(value, props) ==
    IF props = << >> THEN value
    ELSE LET next == get(value, Head(props))
         IN  IF next = Thrown THEN Thrown ELSE walk(next, Tail(props))

\* the _fetchProp branch of ClusterClient._handleMessage: a throw ends the
\* handler before _respond
fetchProp(f, object, prop) ==
    LET value == walk(object, prop)
    IN  [f EXCEPT !.client = object,
                  !.prop = prop,
                  !.handled = TRUE,
                  !.replies = IF value = Thrown THEN << >>
                              ELSE << [_fetchProp |-> prop, _result |-> value] >>]

FetchProp(object, prop) ==
    /\ ~fetching.handled
    /\ fetching' = fetchProp(fetching, object, prop)
    /\ lastOp' = [op |-> "fetchProp",
                  out |-> IF fetching'.replies = << >>
                          THEN "TypeError" ELSE "ok"]
    /\ UNCHANGED << transport, inputFrame >>

FetchNext == \E object \in ClientObjects, prop \in Paths : FetchProp(object, prop)

FetchSpec == HandlerInit /\ [][FetchNext]_vars

\* the value at a path of the client object, undefined when a segment of
\* it is missing
RECURSIVE ValueAt(_, _)
ValueAt(value, props) ==
    IF props = << >> THEN value
    ELSE ValueAt(getOrUndefined(value, Head(props)), Tail(props))

\* C28: the handler of a _fetchProp request sends exactly one reply, which
\* echoes the path and carries the value at that path of the client object,
\* or undefined if a segment of the path is missing.
C28_Original ==
    fetching.handled =>
        fetching.replies =
            << [_fetchProp |-> fetching.prop,
                _result |-> ValueAt(fetching.client, fetching.prop)] >>

---------------------------------------------------------------------------
(* The process-mode transport: Child, as Cluster.spawn constructs it *)

EnvNames == {"CLUSTER", "DISCORD_TOKEN"}
EnvValues == {"0", "1", "2"}
Envs == UNION {[S -> EnvValues] : S \in SUBSET EnvNames}

\* { ...a, ...b }
Spread(a, b) ==
    [name \in DOMAIN a \cup DOMAIN b |->
        IF name \in DOMAIN b THEN b[name] ELSE a[name]]

\* the options Cluster.spawn hands to new Thread(file, options)
threadOptions(env, clusterData) ==
    [env |-> env, clusterData |-> Spread(env, clusterData)]

\* new Child(file, options): the assignments to processOptions.env in the
\* order of the constructor; an object, empty or not, is truthy
newChild(t, options) ==
    LET a == [t EXCEPT !.options = options,
                       !.processOptions = [env |-> options.clusterData]]
    IN  [a EXCEPT !.processOptions = [env |-> options.env]]

\* Child.spawn: childProcess.fork(file, args, processOptions)
childSpawn(t) == [t EXCEPT !.process = [env |-> t.processOptions.env]]

NewThread(env, clusterData) ==
    /\ transport.options = EmptyObject
    /\ transport' = newChild(transport, threadOptions(env, clusterData))
    /\ lastOp' = [op |-> "newThread", out |-> "ok"]
    /\ UNCHANGED << fetching, inputFrame >>

ThreadSpawn ==
    /\ transport.options # EmptyObject
    /\ transport.process = EmptyObject
    /\ transport' = childSpawn(transport)
    /\ lastOp' = [op |-> "threadSpawn", out |-> "ok"]
    /\ UNCHANGED << fetching, inputFrame >>

ThreadNext ==
    \/ \E env \in Envs, clusterData \in Envs : NewThread(env, clusterData)
    \/ ThreadSpawn

ThreadSpec == HandlerInit /\ [][ThreadNext]_vars

\* C29: a Child constructed with both clusterData and env, as Cluster.spawn
\* constructs it, forks its process with clusterData as the environment.
C29_Original ==
    transport.process # EmptyObject =>
        transport.process.env = transport.options.clusterData

---------------------------------------------------------------------------
(* The watchdog over a child that stays alive and stops sending beats.
   Time passes and an armed timer that has expired runs its callback, a
   respawn whose delay has elapsed goes on: these steps are taken whenever
   they stay possible. *)

\* the child's producer stops: its own _cleanupHeartbeat after missed acks,
\* or a child that hangs
ChildFallsSilent(p) ==
    /\ p \in live \cap producing
    /\ producing' = producing \ {p}
    /\ lastOp' = [op |-> "silent", out |-> "ok"]
    /\ UNCHANGED << manager, thread, spawned, live, ready, heartbeat, hbArmed,
                    scanDue, restarts, pending, deaths, killMark, lastSpawn,
                    window, resets, waiters, messaging >>

\* the child reports ready once
FirstReady(p) == ready # "true" /\ HandleReady(p)

\* spawn() is called when the Cluster has no child
FirstSpawn == thread = Null /\ Spawn

WatchdogNext ==
    \/ FirstSpawn
    \/ ResumeRespawn
    \/ \E p \in live : FirstReady(p)
    \/ \E p \in live : HandleKeepAlive(p)
    \/ \E p \in live : ChildFallsSilent(p)
    \/ Scan
    \/ Tick
    \/ HourlyReset

WatchdogFairSpec ==
    /\ Init
    /\ [][WatchdogNext]_vars
    /\ WF_vars(Tick)
    /\ WF_vars(Scan)
    /\ WF_vars(ResumeRespawn)

\* the Cluster runs child p, which reported ready and sends no beats, with
\* keepAlive configured and restarts left in the budget
SilentChild(p) ==
    /\ KeepAliveOn(manager)
    /\ thread = p
    /\ p \in live
    /\ p \notin producing
    /\ ready = "true"
    /\ restarts < manager.keepAlive.maxClusterRestarts
    /\ spawned < MaxSpawns

\* C30: a child that reported ready and sends no further _keepAlive, with
\* keepAlive configured and the restart budget not used up, is eventually
\* replaced by a new child the manager spawns.
C30_Original ==
    \A p \in 1..MaxSpawns : SilentChild(p) ~> (thread \notin {Null, p})

---------------------------------------------------------------------------
(* The watchdog and the exit-driven respawn *)

\* the Cluster's child replaced one that exited and has not reported _ready,
\* so that no beat of it was received
UnreadyReplacement ==
    /\ thread # Null
    /\ lastSpawn.by = "exit"
    /\ thread \notin producing

\* C31: a scan of the heartbeat timer never respawns, and so never
\* force-kills, a child that replaced an exited one and has not yet
\* reported _ready.
C31_Original ==
    [][ (Ran("scan") /\ lastOp'.out = "respawn") => ~UnreadyReplacement ]_vars

---------------------------------------------------------------------------
(* The error reply to evalOnManager *)

\* the envelope is the manager's answer to an evalOnManager request whose
\* evaluation failed
ManagerEvalFailed(message) ==
    /\ "_sManagerEval" \in message.props
    /\ message._error # NotSet

\* C32: when the child receives the manager's reply to an evalOnManager call
\* whose evaluation failed, and the call is still waiting, the call's future
\* is rejected with the error the reply carries.
C32_Original ==
    [][\A c \in Clusters :
          (/\ ClientHandles(c)
           /\ ManagerEvalFailed(Head(toClient[c]))
           /\ Head(toClient[c]).nonce \in DOMAIN clientNonce[c]
           /\ clientPromises[Head(toClient[c]).nonce].state = "pending") =>
              LET n == Head(toClient[c]).nonce
              IN  /\ clientPromises'[n].state = "rejected"
                  /\ clientPromises'[n].value = Scalar(Head(toClient[c])._error)
                  /\ n \notin DOMAIN clientNonce'[c]]_vars

---------------------------------------------------------------------------
(* broadcastEval and fetchClientValues of a ClusterClient: each call attaches
   its own listener to the child's IPC channel and sends a request that
   carries the script or prop and the target, and nothing else that tells
   two calls apart.  The requests and replies carry the number of the call
   they belong to for the properties only: no handler reads it. *)

\* calls a child makes
MaxBroadcasts == 2

BroadcastOutcomes ==
    { [value |-> "a", _error |-> NotSet],
      [value |-> "b", _error |-> NotSet],
      [value |-> NotSet, _error |-> "error"] }

Broadcast ==
    [broadcasts |-> broadcasts, toCluster |-> toCluster, toChild |-> toChild,
     out |-> "ok"]

CommitBroadcast(b) ==
    /\ broadcasts' = b.broadcasts
    /\ toCluster' = b.toCluster
    /\ toChild' = b.toChild

\* the call with its listener attached, and the request of it when the send
\* resolves; a send that fails removes the listener and rejects
asked(b, kind, key, target, promise, timer, delivered) ==
    LET id == Len(b.broadcasts) + 1
        call == [kind |-> kind, key |-> key, target |-> target,
                 listening |-> delivered,
                 timer |-> IF delivered THEN timer ELSE "none",
                 promise |-> IF delivered THEN promise
                             ELSE promiseReject(promise, "send failed"),
                 by |-> 0]
    IN  [b EXCEPT !.broadcasts = Append(@, call),
                  !.toCluster = IF delivered
                                THEN Append(@, [kind |-> kind, key |-> key,
                                                target |-> target, call |-> id])
                                ELSE @,
                  !.out = IF delivered THEN "ok" ELSE "send failed"]

\* ClusterClient.broadcastEval(script, { cluster, timeout }): a script that is
\* missing rejects and the call goes on; the timer is armed in the then() of
\* the send when timeout is truthy
broadcastEval(b, script, target, timeout, delivered) ==
    asked(b, "eval", script, target,
          IF script = NotSet THEN promiseReject(NewPromise, "TypeError")
          ELSE NewPromise,
          IF timeout # Undefined THEN "armed" ELSE "none",
          delivered)

\* ClusterClient.fetchClientValues(prop, cluster)
fetchClientValues(b, prop, target, delivered) ==
    asked(b, "fetch", prop, target, NewPromise, "none", delivered)

\* Cluster._handleMessage, the _sFetchProp and _sEval branches: the reply
\* echoes the prop or script and the target next to _result or _error; a
\* request whose script is missing matches neither branch
clusterBroadcasts(b, outcome) ==
    LET request == Head(b.toCluster)
        taken == [b EXCEPT !.toCluster = Tail(@)]
    IN  IF request.key = NotSet
        THEN [taken EXCEPT !.out = "unmatched"]
        ELSE [taken EXCEPT !.toChild =
                  Append(@, [kind |-> request.kind, key |-> request.key,
                             target |-> request.target,
                             _result |-> outcome.value,
                             _error |-> outcome._error,
                             call |-> request.call])]

\* the test at the head of the listener of a call
listens(call, message) ==
    /\ call.listening
    /\ call.kind = message.kind
    /\ call.key = message.key
    /\ call.target = message.target

\* the rest of the listener: removeListener, clearTimeout, resolve or reject
listened(call, message) ==
    [call EXCEPT !.listening = FALSE,
                 !.timer = IF call.timer = "armed" THEN "cleared" ELSE @,
                 !.promise = IF message._error # NotSet
                             THEN promiseReject(@, message._error)
                             ELSE promiseResolve(@, Scalar(message._result)),
                 !.by = message.call]

\* the oldest reply is emitted on the child's channel: every listener that
\* was attached when it arrived is called
childHears(b) ==
    LET message == Head(b.toChild)
    IN  [b EXCEPT !.toChild = Tail(@),
                  !.broadcasts =
                      [i \in DOMAIN b.broadcasts |->
                          IF listens(b.broadcasts[i], message)
                          THEN listened(b.broadcasts[i], message)
                          ELSE b.broadcasts[i]],
                  !.out = IF \E i \in DOMAIN b.broadcasts :
                                 listens(b.broadcasts[i], message)
                          THEN "ok" ELSE "unheard"]

\* the timer of a broadcastEval call fires
broadcastTimeout(b, id) ==
    [b EXCEPT !.broadcasts[id].listening = FALSE,
              !.broadcasts[id].timer = "fired",
              !.broadcasts[id].promise =
                  promiseReject(@, "BROADCAST_EVAL_REQUEST_TIMED_OUT")]

CallBroadcastEval(script, target, timeout, delivered) ==
    /\ Len(broadcasts) < MaxBroadcasts
    /\ LET b == broadcastEval(Broadcast, script, target, timeout, delivered)
       IN  /\ CommitBroadcast(b)
           /\ lastOp' = [op |-> "broadcastEval", out |-> b.out]
    /\ UNCHANGED broadcastFrame

CallFetchClientValues(prop, target, delivered) ==
    /\ Len(broadcasts) < MaxBroadcasts
    /\ LET b == fetchClientValues(Broadcast, prop, target, delivered)
       IN  /\ CommitBroadcast(b)
           /\ lastOp' = [op |-> "fetchClientValues", out |-> b.out]
    /\ UNCHANGED broadcastFrame

ClusterBroadcasts(outcome) ==
    /\ toCluster # << >>
    /\ LET b == clusterBroadcasts(Broadcast, outcome)
       IN  /\ CommitBroadcast(b)
           /\ lastOp' = [op |-> "clusterBroadcasts", out |-> b.out]
    /\ UNCHANGED broadcastFrame

ChildHears ==
    /\ toChild # << >>
    /\ LET b == childHears(Broadcast)
       IN  /\ CommitBroadcast(b)
           /\ lastOp' = [op |-> "childHears", out |-> b.out]
    /\ UNCHANGED broadcastFrame

BroadcastTimeout(id) ==
    /\ id \in DOMAIN broadcasts
    /\ broadcasts[id].timer = "armed"
    /\ CommitBroadcast(broadcastTimeout(Broadcast, id))
    /\ lastOp' = [op |-> "broadcastTimeout", out |-> "ok"]
    /\ UNCHANGED broadcastFrame

BroadcastNext ==
    \/ \E script \in ScriptsTried, target \in TargetsTried,
          timeout \in EvalTimeouts, delivered \in BOOLEAN :
          CallBroadcastEval(script, target, timeout, delivered)
    \/ \E prop \in Props, target \in TargetsTried, delivered \in BOOLEAN :
          CallFetchClientValues(prop, target, delivered)
    \/ \E outcome \in BroadcastOutcomes : ClusterBroadcasts(outcome)
    \/ ChildHears
    \/ \E id \in 1..MaxBroadcasts + 1 : BroadcastTimeout(id)

BroadcastSpec == HandlerInit /\ [][BroadcastNext]_vars

\* the calls this step completed
CompletedNow ==
    {i \in DOMAIN broadcasts :
        /\ broadcasts[i].promise.state = "pending"
        /\ broadcasts'[i].promise.state # "pending"}

\* C33: of the calls of broadcastEval, or of fetchClientValues, that a child
\* has pending, a reply completes one only, the call it answers, also when
\* another pending call has the same script or prop and the same target.
C33_Original ==
    [][Ran("childHears") =>
           /\ Cardinality(CompletedNow) <= 1
           /\ \A i \in CompletedNow : broadcasts'[i].by = i]_vars

---------------------------------------------------------------------------
(* evalOnCluster without a target *)

\* C34: evalOnCluster called with none of cluster, shard and guildId returns
\* a future rejected with TargetClusterNotProvided, registers no waiter in
\* _nonce and sends no _sClusterEval envelope.
C34_Original ==
    [][(Ran("evalOnCluster") /\ lastOp'.target = Undefined) =>
           /\ clientPromises'[lastOp'.nonce].state = "rejected"
           /\ clientPromises'[lastOp'.nonce].value =
                  Scalar("TARGET CLUSTER HAS NOT BEEN PROVIDED")
           /\ clientNonce' = clientNonce
           /\ toManager' = toManager]_vars

---------------------------------------------------------------------------
(* eval and fetchClientValue of a Cluster without a child *)

\* C35: eval and fetchClientValue called while the Cluster has no thread
\* return a future rejected with CLUSTERING_NO_CHILD_EXISTS, send nothing to
\* any child and leave _evals and _fetches, and the calls made before,
\* as they were.
C35_NoChildRejects ==
    [][((Ran("eval") \/ Ran("fetchClientValue")) /\ child = 0) =>
           /\ lastOp'.out = "CLUSTERING_NO_CHILD_EXISTS"
           /\ requests' = requests
           /\ evals' = evals
           /\ fetches' = fetches
           /\ calls' = calls]_vars

\* eval was refused on a Cluster whose child was killed or exited, with a
\* call made on that child still unanswered
C35_Witness ==
    /\ lastOp.op = "eval"
    /\ lastOp.out = "CLUSTERING_NO_CHILD_EXISTS"
    /\ child = 0
    /\ forked > 0
    /\ \E i \in DOMAIN calls : calls[i].promise.state = "pending"

=============================================================================
